---- MODULE Spec2Model ----
(***************************************************************************)
(* GoInsight: the game/board model of src/src/data (board.py, game.py,     *)
(* move.py, sgf.py).  A Game owns a list of played moves and a Board; the  *)
(* Board is a grid of optional Move references with a group/liberty        *)
(* capture engine.                                                         *)
(*                                                                         *)
(* Encoding.  Python's None is the empty tuple <<>>.  A position is a      *)
(* tuple <<x, y>>.  A Move is a record [color, pos, turn] where turn is    *)
(* <<>> (None) or <<n>>.  A grid cell is <<>> (empty) or <<move>>.  A      *)
(* string is a tuple of one-character strings.  An SgfTree is a record     *)
(* [properties, children]: properties is the dict as the sequence of its   *)
(* <<key, values>> items in insertion order, children a sequence of trees. *)
(*                                                                         *)
(* text and tree are the arguments and results of the pure functions       *)
(* (sgf.py parse and serialize, the coordinate conversions of move.py):    *)
(* the string handed in or returned, the SgfTree handed in or returned.    *)
(*                                                                         *)
(* calls is the stack of the Board calls in progress where a call is taken *)
(* one loop iteration at a time (the local variables of each call); it is  *)
(* empty wherever an operation is one step.                                *)
(***************************************************************************)
EXTENDS Integers, Sequences, FiniteSets, TLC

VARIABLES ruleset, size, komi, handicap, AB, AW, moves, board, text, tree, last,
          calls

vars == <<ruleset, size, komi, handicap, AB, AW, moves, board, text, tree, last,
          calls>>

None == <<>>

\* The outcome of a call: "none", or the exception raised, named by its type
\* and the text that tells its raise site.
ValueErrors ==
    { "ValueError: Invalid position",           \* move.py:63
      "ValueError: from_gtp invalid argument",  \* move.py:122, 127, 135
      "ValueError: add_move invalid move",      \* board.py:159
      "ValueError: board_from_moves invalid position",  \* board.py:65
      "ValueError: remove_move invalid position",  \* board.py:180
      "ValueError: place invalid argument",     \* game.py:205
      "ValueError: substring not found",        \* str.index
      "ValueError: invalid literal for int",    \* int(str)
      "ValueError: tree missing",               \* sgf.py:302
      "ValueError: property must be in uppercase",  \* sgf.py:253
      "ValueError: properties without delimiter",   \* sgf.py:255
      "ValueError: tree with no nodes",         \* sgf.py:292
      "ValueError: invalid board size",         \* sgf.py:212
      "ValueError: could not convert string to float" }  \* float(str)


-----------------------------------------------------------------------------
(* Bounds of the model *)

\* Game.play is taken while it leaves at most MaxMoves moves recorded.
MaxMoves == 2

\* Game.place / Board.add_move are enabled while fewer than MaxSetup stones
\* that carry no turn index are on the grid.
MaxSetup == 1

-----------------------------------------------------------------------------
(* Characters and strings *)

LowerLetters ==
    <<"a","b","c","d","e","f","g","h","i","j","k","l","m",
      "n","o","p","q","r","s","t","u","v","w","x","y","z">>

UpperLetters ==
    <<"A","B","C","D","E","F","G","H","I","J","K","L","M",
      "N","O","P","Q","R","S","T","U","V","W","X","Y","Z">>

\* str.upper() on one character.
UpperChar(c) ==
    IF \E i \in 1..26 : LowerLetters[i] = c
    THEN UpperLetters[CHOOSE i \in 1..26 : LowerLetters[i] = c]
    ELSE c

\* str.lower() on one character.
LowerChar(c) ==
    IF \E i \in 1..26 : UpperLetters[i] = c
    THEN LowerLetters[CHOOSE i \in 1..26 : UpperLetters[i] = c]
    ELSE c

RECURSIVE MapChars(_, _)
MapChars(s, lower) ==
    IF s = <<>> THEN <<>>
    ELSE <<IF lower THEN LowerChar(Head(s)) ELSE UpperChar(Head(s))>>
         \o MapChars(Tail(s), lower)

Lower(s) == MapChars(s, TRUE)

\* data/constants.py : the 25-letter GTP column alphabet (I is skipped).
VALID_COLUMN_GTP ==
    <<"A","B","C","D","E","F","G","H","J","K","L","M","N",
      "O","P","Q","R","S","T","U","V","W","X","Y","Z">>

\* data/constants.py : the 26-letter SGF coordinate alphabet.
VALID_COLUMN_SGF == LowerLetters

\* str.index(ch) for a one-character ch: the zero-based index of ch, or <<>>
\* where Python raises ValueError (no alphabet here repeats a character, so
\* the occurrence is the first one).
StrIndex(alphabet, ch) ==
    IF \E i \in 1..Len(alphabet) : alphabet[i] = ch
    THEN <<(CHOOSE i \in 1..Len(alphabet) : alphabet[i] = ch) - 1>>
    ELSE None

Digits == <<"0","1","2","3","4","5","6","7","8","9">>

IsDigit(c) == StrIndex(Digits, c) /= None

RECURSIVE DigitsValue(_, _)
DigitsValue(s, acc) ==
    IF s = <<>> THEN acc
    ELSE DigitsValue(Tail(s), 10 * acc + StrIndex(Digits, Head(s))[1])

\* int(s) for the strings the model feeds to it: an optional sign followed
\* by one or more decimal digits; <<>> where Python raises ValueError.
ParseInt(s) ==
    LET signed == s /= <<>> /\ Head(s) \in {"-", "+"}
        body   == IF signed THEN Tail(s) ELSE s
    IN  IF body = <<>> \/ \E i \in 1..Len(body) : ~IsDigit(body[i])
        THEN None
        ELSE <<(IF signed /\ Head(s) = "-" THEN -1 ELSE 1) * DigitsValue(body, 0)>>

\* str.split(" "): the fields between single spaces (empty fields are kept).
RECURSIVE SplitSpace(_, _)
SplitSpace(s, cur) ==
    IF s = <<>> THEN <<cur>>
    ELSE IF Head(s) = " " THEN <<cur>> \o SplitSpace(Tail(s), <<>>)
    ELSE SplitSpace(Tail(s), Append(cur, Head(s)))

PASS == <<"p","a","s","s">>

-----------------------------------------------------------------------------
(* Move objects and grid cells *)

NewMove(color, pos) == [color |-> color, pos |-> pos, turn |-> None]

Stone(cell) == cell[1]

Cells(sz) == {<<x, y>> : x \in 0..(sz[1] - 1), y \in 0..(sz[2] - 1)}

\* board.py:61 : the grid of a Board built from no moves.
EmptyGrid(sz) == [p \in Cells(sz) |-> None]

-----------------------------------------------------------------------------
(* board.py : Board *)

\* Mutant of is_valid_pos: the occupancy test (board.py:96) is left out.
is_valid_pos_IgnoresStone(pos, b, sz) ==
    LET x == pos[1]
        y == pos[2]
    IN  IF x < 0 \/ y < 0 THEN FALSE
        ELSE IF x >= sz[1] \/ y >= sz[2] THEN FALSE
        ELSE TRUE

\* Board.is_valid_pos(pos) on the object's own grid.
is_valid_pos(pos, b, sz) ==
    LET x == pos[1]
        y == pos[2]
    IN  IF x < 0 \/ y < 0 THEN FALSE
        ELSE IF x >= sz[1] \/ y >= sz[2] THEN FALSE
        ELSE IF b[pos] /= None THEN FALSE
        ELSE TRUE

\* The grid after self.board[y][x] = move.
SetCell(b, pos, move) == [b EXCEPT ![pos] = <<move>>]

\* Mutant of add_move: the two indices are swapped, so the move is stored
\* in the cell (y, x) (board.py:162).
add_move_Transposed(b, sz, move) ==
    IF move.pos = None THEN [err |-> "TypeError", board |-> b]
    ELSE IF ~is_valid_pos(move.pos, b, sz)
    THEN [err |-> "ValueError: add_move invalid move", board |-> b]
    ELSE [err |-> "none",
          board |-> LET q == <<move.pos[2], move.pos[1]>>
                    IN  IF q \in DOMAIN b THEN SetCell(b, q, move) ELSE b]

\* Board.add_move(move): [err, board].  A move without a position makes the
\* tuple unpacking of is_valid_pos raise TypeError.
add_move(b, sz, move) ==
    IF move.pos = None THEN [err |-> "TypeError", board |-> b]
    ELSE IF ~is_valid_pos(move.pos, b, sz)
    THEN [err |-> "ValueError: add_move invalid move", board |-> b]
    ELSE [err |-> "none", board |-> SetCell(b, move.pos, move)]

\* Board.remove_move(move): [err, board].  The cell at the move's position is
\* set to None whenever that position is on the board; what the cell holds
\* is not looked at (board.py:177-178).
remove_move(b, sz, move) ==
    IF move.pos = None THEN [err |-> "TypeError", board |-> b]
    ELSE LET x == move.pos[1]
             y == move.pos[2]
         IN  IF 0 <= x /\ x < sz[1] /\ 0 <= y /\ y < sz[2]
             THEN [err |-> "none", board |-> [b EXCEPT ![move.pos] = None]]
             ELSE [err |-> "ValueError: remove_move invalid position", board |-> b]

\* Board._neighbors(x, y): left, right, up, down, those inside the board.
neighbors(p, sz) ==
    LET x == p[1]
        y == p[2]
    IN  (IF x > 0 THEN <<(<<x - 1, y>>)>> ELSE <<>>)
        \o (IF x < sz[1] - 1 THEN <<(<<x + 1, y>>)>> ELSE <<>>)
        \o (IF y > 0 THEN <<(<<x, y - 1>>)>> ELSE <<>>)
        \o (IF y < sz[2] - 1 THEN <<(<<x, y + 1>>)>> ELSE <<>>)

\* Mutant of VisitNeighbors: a neighbour of the group's colour is pushed
\* whether or not it was visited before (board.py:238 without its second
\* condition).
RECURSIVE VisitNeighbors_Revisits(_, _, _, _)
VisitNeighbors_Revisits(b, color, nbrs, st) ==
    IF nbrs = <<>> THEN st
    ELSE LET n    == Head(nbrs)
             cell == b[n]
             st2  == IF cell = None
                     THEN [st EXCEPT !.liberties = @ \cup {n}]
                     ELSE IF LowerChar(Stone(cell).color) = color
                     THEN [st EXCEPT !.visited = @ \cup {n}, !.stack = Append(@, n)]
                     ELSE st
         IN  VisitNeighbors_Revisits(b, color, Tail(nbrs), st2)

\* Mutant of VisitNeighbors: the neighbour's colour is compared as stored,
\* without lower() (board.py:238).
RECURSIVE VisitNeighbors_CaseSensitive(_, _, _, _)
VisitNeighbors_CaseSensitive(b, color, nbrs, st) ==
    IF nbrs = <<>> THEN st
    ELSE LET n    == Head(nbrs)
             cell == b[n]
             st2  == IF cell = None
                     THEN [st EXCEPT !.liberties = @ \cup {n}]
                     ELSE IF Stone(cell).color = color /\ n \notin st.visited
                     THEN [st EXCEPT !.visited = @ \cup {n}, !.stack = Append(@, n)]
                     ELSE st
         IN  VisitNeighbors_CaseSensitive(b, color, Tail(nbrs), st2)

\* The for loop of _group_and_liberties over the neighbours of one popped
\* cell (board.py:234-240), on the loop's state [stack, visited, liberties].
RECURSIVE VisitNeighbors(_, _, _, _)
VisitNeighbors(b, color, nbrs, st) ==
    IF nbrs = <<>> THEN st
    ELSE LET n    == Head(nbrs)
             cell == b[n]
             st2  == IF cell = None
                     THEN [st EXCEPT !.liberties = @ \cup {n}]
                     ELSE IF LowerChar(Stone(cell).color) = color /\ n \notin st.visited
                     THEN [st EXCEPT !.visited = @ \cup {n}, !.stack = Append(@, n)]
                     ELSE st
         IN  VisitNeighbors(b, color, Tail(nbrs), st2)

\* The while loop of _group_and_liberties (board.py:231-240).
RECURSIVE FloodFill(_, _, _, _, _)
FloodFill(b, sz, color, st, group) ==
    IF st.stack = <<>> THEN [group |-> group, liberties |-> st.liberties]
    ELSE LET p    == st.stack[Len(st.stack)]
             rest == [st EXCEPT !.stack = SubSeq(@, 1, Len(@) - 1)]
         IN  FloodFill(b, sz, color,
                       VisitNeighbors(b, color, neighbors(p, sz), rest),
                       group \cup {p})

\* Board._group_and_liberties(start): [group, liberties].
group_and_liberties(b, sz, start) ==
    IF b[start] = None THEN [group |-> {}, liberties |-> {}]
    ELSE FloodFill(b, sz, LowerChar(Stone(b[start]).color),
                   [stack |-> <<start>>, visited |-> {start}, liberties |-> {}],
                   {})

\* The cells in the order update_board scans them: for y, for x.
ScanOrder(sz) ==
    [i \in 1..(sz[1] * sz[2]) |-> <<(i - 1) % sz[1], (i - 1) \div sz[1]>>]

\* Mutant of ScanGroups: the scan ends with the first group it finds
\* without a liberty.
RECURSIVE ScanGroups_StopsAtFirst(_, _, _, _)
ScanGroups_StopsAtFirst(b, sz, order, acc) ==
    IF order = <<>> \/ acc.to_remove /= {} THEN acc
    ELSE LET p  == Head(order)
             gl == group_and_liberties(b, sz, p)
         IN  IF b[p] = None \/ p \in acc.visited
             THEN ScanGroups_StopsAtFirst(b, sz, Tail(order), acc)
             ELSE ScanGroups_StopsAtFirst(b, sz, Tail(order),
                    [visited   |-> acc.visited \cup gl.group,
                     to_remove |-> IF Cardinality(gl.liberties) = 0
                                   THEN acc.to_remove \cup gl.group
                                   ELSE acc.to_remove])

\* The scan of update_board (board.py:265-276): [to_remove, visited].
RECURSIVE ScanGroups(_, _, _, _)
ScanGroups(b, sz, order, acc) ==
    IF order = <<>> THEN acc
    ELSE LET p  == Head(order)
             gl == group_and_liberties(b, sz, p)
         IN  IF b[p] = None \/ p \in acc.visited
             THEN ScanGroups(b, sz, Tail(order), acc)
             ELSE ScanGroups(b, sz, Tail(order),
                    [visited   |-> acc.visited \cup gl.group,
                     to_remove |-> IF Cardinality(gl.liberties) = 0
                                   THEN acc.to_remove \cup gl.group
                                   ELSE acc.to_remove])

\* Python's tuple order on positions.
PosLess(p, q) == p[1] < q[1] \/ (p[1] = q[1] /\ p[2] < q[2])

\* sorted(set of positions).
RECURSIVE SortedPos(_)
SortedPos(S) ==
    IF S = {} THEN <<>>
    ELSE LET m == CHOOSE p \in S : \A q \in S \ {p} : PosLess(p, q)
         IN  <<m>> \o SortedPos(S \ {m})

\* Mutant of update_board: a group without a liberty is cleared as soon as
\* the scan finds it, so the groups after it are evaluated on a grid that
\* is already partly cleared.
RECURSIVE SweepMidScan(_, _, _, _)
SweepMidScan(b, sz, order, removed) ==
    IF order = <<>> THEN [board |-> b, removed |-> SortedPos(removed)]
    ELSE LET p  == Head(order)
             gl == group_and_liberties(b, sz, p)
         IN  IF b[p] = None \/ gl.liberties /= {}
             THEN SweepMidScan(b, sz, Tail(order), removed)
             ELSE SweepMidScan([q \in DOMAIN b |-> IF q \in gl.group THEN None ELSE b[q]],
                               sz, Tail(order), removed \cup gl.group)

update_board_ClearsMidScan(b, sz) == SweepMidScan(b, sz, ScanOrder(sz), {})

\* Board.update_board(): [board, removed].
update_board(b, sz) ==
    LET scan == ScanGroups(b, sz, ScanOrder(sz), [visited |-> {}, to_remove |-> {}])
    IN  [board   |-> [p \in DOMAIN b |-> IF p \in scan.to_remove THEN None ELSE b[p]],
         removed |-> SortedPos(scan.to_remove)]

\* The loop of Board.board_from_moves (board.py:63-68): [err, board].  The
\* positions are tested against the grid under construction, whose size is
\* the size of the board being built.
RECURSIVE FillGrid(_, _, _)
FillGrid(b, sz, ms) ==
    IF ms = <<>> THEN [err |-> "none", board |-> b]
    ELSE IF Head(ms).pos = None THEN [err |-> "TypeError", board |-> b]
    ELSE IF ~is_valid_pos(Head(ms).pos, b, sz)
    THEN [err |-> "ValueError: board_from_moves invalid position", board |-> b]
    ELSE FillGrid(SetCell(b, Head(ms).pos, Head(ms)), sz, Tail(ms))

\* Board.board_from_moves(moves) (board.py:61-70): [err, board].
board_from_moves(sz, ms) == FillGrid(EmptyGrid(sz), sz, ms)

\* Board.moves_sub_board(corner1, corner2) (board.py:133-146): [err, moves],
\* over game.moves.  A pass has no position to unpack: TypeError.
RECURSIVE moves_sub_board(_, _, _)
moves_sub_board(corner1, corner2, ms) ==
    LET x_min == IF corner1[1] <= corner2[1] THEN corner1[1] ELSE corner2[1]
        x_max == IF corner1[1] <= corner2[1] THEN corner2[1] ELSE corner1[1]
        y_min == IF corner1[2] <= corner2[2] THEN corner1[2] ELSE corner2[2]
        y_max == IF corner1[2] <= corner2[2] THEN corner2[2] ELSE corner1[2]
        move  == Head(ms)
        rest  == moves_sub_board(corner1, corner2, Tail(ms))
    IN  IF ms = <<>> THEN [err |-> "none", moves |-> <<>>]
        ELSE IF move.pos = None THEN [err |-> "TypeError", moves |-> <<>>]
        ELSE IF rest.err /= "none" THEN rest
        ELSE IF x_min <= move.pos[1] /\ move.pos[1] <= x_max
                /\ y_min <= move.pos[2] /\ move.pos[2] <= y_max
        THEN [err |-> "none", moves |-> <<move>> \o rest.moves]
        ELSE rest

\* Board.sub_board(corner1, corner2) (board.py:113-119): [err, size, board],
\* the Board built by Board(self.game, size, moves).
sub_board(corner1, corner2, ms) ==
    LET dx    == corner1[1] - corner2[1]
        dy    == corner1[2] - corner2[2]
        sz    == <<(IF dx < 0 THEN -dx ELSE dx) + 1, (IF dy < 0 THEN -dy ELSE dy) + 1>>
        kept  == moves_sub_board(corner1, corner2, ms)
        built == board_from_moves(sz, kept.moves)
    IN  IF kept.err /= "none" THEN [err |-> kept.err, size |-> sz, board |-> None]
        ELSE IF built.err /= "none" THEN [err |-> built.err, size |-> sz, board |-> None]
        ELSE [err |-> "none", size |-> sz, board |-> built.board]

-----------------------------------------------------------------------------
(* game.py : Game.next_color ; move.py : Move *)

\* Mutant of next_color: the last colour is compared without upper().
next_color_CaseSensitive(ms, ha) ==
    IF ms = <<>> THEN (IF ha < 2 THEN "B" ELSE "W")
    ELSE IF ms[Len(ms)].color = "B" THEN "W" ELSE "B"

\* Mutant of next_color: White starts from a handicap of one stone.
next_color_FromOneStone(ms, ha) ==
    IF ms = <<>> THEN (IF ha < 1 THEN "B" ELSE "W")
    ELSE IF UpperChar(ms[Len(ms)].color) = "B" THEN "W" ELSE "B"

\* Game.next_color().
next_color(ms, ha) ==
    IF ms = <<>> THEN (IF ha < 2 THEN "B" ELSE "W")
    ELSE IF UpperChar(ms[Len(ms)].color) = "B" THEN "W" ELSE "B"

ValidColors == {"B", "W", "b", "w"}

\* Move.__init__(game, color, pos): [err, move].
MoveInit(color, pos, ms, ha, b, sz) ==
    LET c == IF color \in ValidColors THEN color ELSE next_color(ms, ha)
    IN  IF pos /= None /\ ~is_valid_pos(pos, b, sz)
        THEN [err |-> "ValueError: Invalid position", move |-> NewMove(c, pos)]
        ELSE [err |-> "none", move |-> NewMove(c, pos)]

\* Move.sgf_to_coord(sgf_pos): [err, pos].
sgf_to_coord(s) ==
    IF s = <<>> THEN [err |-> "none", pos |-> None]
    ELSE IF StrIndex(VALID_COLUMN_SGF, s[1]) = None
    THEN [err |-> "ValueError: substring not found", pos |-> None]
    ELSE IF Len(s) < 2 THEN [err |-> "IndexError", pos |-> None]
    ELSE IF StrIndex(VALID_COLUMN_SGF, s[2]) = None
    THEN [err |-> "ValueError: substring not found", pos |-> None]
    ELSE [err |-> "none",
          pos |-> <<StrIndex(VALID_COLUMN_SGF, s[1])[1],
                    StrIndex(VALID_COLUMN_SGF, s[2])[1]>>]

\* The row test of from_gtp (move.py:134).
RowInRange(y, sz) == 0 <= y /\ y <= sz[1] - 1

\* Move.from_gtp(game, gtp_move): [err, move].
from_gtp(gtp, ms, ha, b, sz) ==
    LET parsed  == SplitSpace(gtp, <<>>)
        color   == parsed[1]
        gtp_pos == parsed[2]
        fail(e) == [err |-> e, move |-> NewMove("b", None)]
    IN  IF Len(parsed) /= 2 THEN fail("ValueError: from_gtp invalid argument")
        ELSE IF Lower(color) \notin {<<"b">>, <<"w">>}
        THEN fail("ValueError: from_gtp invalid argument")
        ELSE IF gtp_pos = PASS
        THEN MoveInit(Lower(color)[1], None, ms, ha, b, sz)
        ELSE IF gtp_pos = <<>> THEN fail("IndexError")
        ELSE LET x   == StrIndex(VALID_COLUMN_GTP, UpperChar(gtp_pos[1]))
                 row == ParseInt(Tail(gtp_pos))
             IN  IF x = None THEN fail("ValueError: substring not found")
                 ELSE IF row = None THEN fail("ValueError: invalid literal for int")
                 ELSE IF ~RowInRange(sz[2] - row[1], sz)
                 THEN fail("ValueError: from_gtp invalid argument")
                 ELSE MoveInit(Lower(color)[1], <<x[1], sz[2] - row[1]>>,
                               ms, ha, b, sz)

\* str(n) for an integer n.
RECURSIVE NatToStr(_)
NatToStr(n) ==
    IF n < 10 THEN <<Digits[n + 1]>>
    ELSE NatToStr(n \div 10) \o <<Digits[(n % 10) + 1]>>

IntToStr(n) == IF n < 0 THEN <<"-">> \o NatToStr(-n) ELSE NatToStr(n)

\* Move.to_gtp(): [err, ret].  VALID_COLUMN_GTP[x] raises IndexError from
\* x = 25 on.
to_gtp(move, sz) ==
    IF move.pos = None THEN [err |-> "none", ret |-> <<move.color, " ">> \o PASS]
    ELSE IF move.pos[1] >= Len(VALID_COLUMN_GTP)
    THEN [err |-> "IndexError", ret |-> None]
    ELSE [err |-> "none",
          ret |-> <<move.color, " ", VALID_COLUMN_GTP[move.pos[1] + 1]>>
                  \o IntToStr(sz[2] - move.pos[2])]

\* Mutant of sgf_to_gtp: the row is counted from the board's width.
sgf_to_gtp_FromWidth(s, sz) ==
    LET coords == sgf_to_coord(s)
    IN  IF coords.err /= "none" THEN [err |-> coords.err, ret |-> None]
        ELSE IF coords.pos = None THEN [err |-> "none", ret |-> PASS]
        ELSE IF coords.pos[1] >= Len(VALID_COLUMN_GTP)
        THEN [err |-> "IndexError", ret |-> None]
        ELSE [err |-> "none",
              ret |-> <<VALID_COLUMN_GTP[coords.pos[1] + 1]>>
                      \o IntToStr(sz[1] - coords.pos[2])]

\* Move.sgf_to_gtp(sgf_pos, board_size): [err, ret].
sgf_to_gtp(s, sz) ==
    LET coords == sgf_to_coord(s)
    IN  IF coords.err /= "none" THEN [err |-> coords.err, ret |-> None]
        ELSE IF coords.pos = None THEN [err |-> "none", ret |-> PASS]
        ELSE IF coords.pos[1] >= Len(VALID_COLUMN_GTP)
        THEN [err |-> "IndexError", ret |-> None]
        ELSE [err |-> "none",
              ret |-> <<VALID_COLUMN_GTP[coords.pos[1] + 1]>>
                      \o IntToStr(sz[2] - coords.pos[2])]

-----------------------------------------------------------------------------
(* game.py : Game *)

\* One stone of Game.place: Move(self, color, pos), then board.add_move(move)
\* (game.py:196-197 and 201-202): [err, board].
place_one(color, pos, ms, ha, b, sz) ==
    LET m == MoveInit(color, pos, ms, ha, b, sz)
    IN  IF m.err /= "none" THEN [err |-> m.err, board |-> b]
        ELSE add_move(b, sz, m.move)

\* The for loop of Game.place over a list (game.py:200-202): it stops at the
\* first stone that raises, the stones before it stay on the grid.
RECURSIVE place_list(_, _, _, _, _, _)
place_list(color, ps, ms, ha, b, sz) ==
    IF ps = <<>> THEN [err |-> "none", board |-> b]
    ELSE LET r == place_one(color, Head(ps), ms, ha, b, sz)
         IN  IF r.err /= "none" THEN r
             ELSE place_list(color, Tail(ps), ms, ha, r.board, sz)

\* Game.place(color, pos): [err, board].  The argument is [kind, val] with
\* kind "tuple" (one position), "list" (a list of positions) or "other".
place(color, arg, ms, ha, b, sz) ==
    IF arg.kind = "tuple" THEN place_one(color, arg.val, ms, ha, b, sz)
    ELSE IF arg.kind = "list" THEN place_list(color, arg.val, ms, ha, b, sz)
    ELSE [err |-> "ValueError: place invalid argument", board |-> b]

\* Mutant of WithTurn: turns counted from one.
WithTurn_OneBased(move, ms) == [move EXCEPT !.turn = <<Len(ms) + 1>>]

\* move.turn = len(self.moves) (game.py:219).
WithTurn(move, ms) == [move EXCEPT !.turn = <<Len(ms)>>]

\* Mutant of AppendMove: the move is inserted at the front of the list.
AppendMove_AtFront(ms, move) == <<move>> \o ms

\* self.moves.append(move) (game.py:223 and 228).
AppendMove(ms, move) == Append(ms, move)

\* Mutant of play: the early return for a pass (game.py:222-224) is left out.
play_PassOnBoard(gtp, ms, ha, b, sz) ==
    LET r    == from_gtp(gtp, ms, ha, b, sz)
        move == [r.move EXCEPT !.turn = <<Len(ms)>>]
        put  == add_move(b, sz, move)
    IN  IF r.err /= "none" THEN [err |-> r.err, moves |-> ms, board |-> b]
        ELSE IF put.err /= "none"
        THEN [err |-> put.err, moves |-> ms, board |-> b]
        ELSE [err |-> "none", moves |-> Append(ms, move), board |-> put.board]

\* Game.play(move_gtp): [err, moves, board].
play(gtp, ms, ha, b, sz) ==
    LET r    == from_gtp(gtp, ms, ha, b, sz)
        move == WithTurn(r.move, ms)
        put  == add_move(b, sz, move)
    IN  IF r.err /= "none" THEN [err |-> r.err, moves |-> ms, board |-> b]
        ELSE IF move.pos = None
        THEN [err |-> "none", moves |-> AppendMove(ms, move), board |-> b]
        ELSE IF put.err /= "none"
        THEN [err |-> put.err, moves |-> ms, board |-> b]
        ELSE [err |-> "none", moves |-> AppendMove(ms, move), board |-> put.board]

\* [Move.sgf_to_coord(sgf_pos) for sgf_pos in AB] (game.py:90, 93): [err, val].
RECURSIVE DecodeAll(_)
DecodeAll(ss) ==
    IF ss = <<>> THEN [err |-> "none", val |-> <<>>]
    ELSE LET h == sgf_to_coord(Head(ss))
             t == DecodeAll(Tail(ss))
         IN  IF h.err /= "none" THEN [err |-> h.err, val |-> <<>>]
             ELSE IF t.err /= "none" THEN t
             ELSE [err |-> "none", val |-> <<h.pos>> \o t.val]

\* The setup of one colour in Game.__init__ (game.py:89-93): [err, board].
\* prop is None or <<list>>; "if AB:" skips None and the empty list.
Setup(color, prop, ha, b, sz) ==
    IF prop = None \/ prop[1] = <<>> THEN [err |-> "none", board |-> b]
    ELSE LET d == DecodeAll(prop[1])
         IN  IF d.err /= "none" THEN [err |-> d.err, board |-> b]
             ELSE place(color, [kind |-> "list", val |-> d.val], <<>>, ha, b, sz)

\* The size of Game.__init__ (game.py:73-76) from the integers of SZ[0].
GameSize(SZ) == IF Len(SZ) = 1 THEN SZ \o SZ ELSE SZ

\* Game.__init__(RU, SZ, KM, HA, AB, AW): [err, size, handicap, moves, board].
GameInit(SZ, HA, ab, aw) ==
    LET sz == GameSize(SZ)
        b0 == board_from_moves(sz, <<>>).board
        b1 == Setup("B", ab, HA, b0, sz)
        b2 == Setup("W", aw, HA, b1.board, sz)
    IN  [err      |-> IF b1.err /= "none" THEN b1.err ELSE b2.err,
         size     |-> sz,
         handicap |-> HA,
         moves    |-> <<>>,
         board    |-> b2.board]

\* str.split(sep) for a one-character separator: the fields between the
\* separators (empty fields are kept).
RECURSIVE Split(_, _, _)
Split(s, sep, cur) ==
    IF s = <<>> THEN <<cur>>
    ELSE IF Head(s) = sep THEN <<cur>> \o Split(Tail(s), sep, <<>>)
    ELSE Split(Tail(s), sep, Append(cur, Head(s)))

\* float(s) (game.py:78) on decimal strings: an optional minus sign, one or
\* more digits and at most one digit after a point.  The float is held as
\* its number of tenths; any other string is taken to raise ValueError.
ToFloat(s) ==
    LET neg   == s /= <<>> /\ Head(s) = "-"
        body  == IF neg THEN Tail(s) ELSE s
        parts == Split(body, ".", <<>>)
        whole == IF parts[1] = <<>> \/ \E i \in 1..Len(parts[1]) : ~IsDigit(parts[1][i])
                 THEN None ELSE <<DigitsValue(parts[1], 0)>>
        frac  == IF Len(parts) = 1 THEN <<0>>
                 ELSE IF Len(parts) = 2 /\ Len(parts[2]) = 1 /\ IsDigit(parts[2][1])
                 THEN <<DigitsValue(parts[2], 0)>>
                 ELSE None
    IN  IF whole = None \/ frac = None
        THEN [err |-> "ValueError: could not convert string to float", val |-> None]
        ELSE [err |-> "none",
              val |-> (IF neg THEN -1 ELSE 1) * (10 * whole[1] + frac[1])]

\* str(self.komi) (game.py:131) for a float held as its number of tenths:
\* the shortest decimal that reads back as the same float.
FloatToStr(k) ==
    LET a == IF k < 0 THEN -k ELSE k
    IN  (IF k < 0 THEN <<"-">> ELSE <<>>)
        \o NatToStr(a \div 10) \o <<".">> \o NatToStr(a % 10)

-----------------------------------------------------------------------------
(* sgf.py : parse *)

\* An SgfTree(properties, children).
SgfTree(properties, children) == [properties |-> properties, children |-> children]

\* The characters str.split() takes for whitespace.
Whitespace == {" ", "\t", "\n", "\r"}

\* "".join(input.split()) (sgf.py:303): every whitespace character of the
\* text is dropped, wherever it stands.
StripWhitespace(s) == SelectSeq(s, LAMBDA c : c \notin Whitespace)

\* input[i] for a zero-based index i inside the string.
At(s, i) == s[i + 1]

\* input[i:j], a slice: it stops at the end of the string.
Slice(s, i, j) == SubSeq(s, i + 1, IF j <= Len(s) THEN j ELSE Len(s))

\* str.isupper() and str.islower() on one character.
IsUpperChar(c) == \E i \in 1..26 : UpperLetters[i] = c

IsLowerChar(c) == \E i \in 1..26 : LowerLetters[i] = c

\* The index loop "while input[ind].isupper(): ind += 1" (sgf.py:250-251):
\* [err, ind]; indexing past the end raises IndexError.
RECURSIVE ScanKey(_, _)
ScanKey(inp, ind) ==
    IF ind >= Len(inp) THEN [err |-> "IndexError", ind |-> ind]
    ELSE IF IsUpperChar(At(inp, ind)) THEN ScanKey(inp, ind + 1)
    ELSE [err |-> "none", ind |-> ind]

\* The loop over one bracketed value (sgf.py:262-272): [err, ind, w], ind at
\* the closing bracket.
RECURSIVE ScanValue(_, _, _)
ScanValue(inp, ind, w) ==
    IF ind >= Len(inp) THEN [err |-> "IndexError", ind |-> ind, w |-> w]
    ELSE LET c == At(inp, ind)
             two == Slice(inp, ind, ind + 2)
         IN  IF c = "]" THEN [err |-> "none", ind |-> ind, w |-> w]
             ELSE IF c = "\t" THEN ScanValue(inp, ind + 1, Append(w, " "))
             ELSE IF two \in {<<"\\", "]">>, <<"\\", "\\">>}
             THEN ScanValue(inp, ind + 2, Append(w, At(inp, ind + 1)))
             ELSE IF two = <<"\\", "\n">> THEN ScanValue(inp, ind + 2, w)
             ELSE IF c /= "\\" THEN ScanValue(inp, ind + 1, Append(w, c))
             ELSE ScanValue(inp, ind + 1, w)

\* The loop "while input[pos] == '['" over the values of one property
\* (sgf.py:259-274): [err, pos, values].
RECURSIVE ScanValues(_, _, _)
ScanValues(inp, pos, values) ==
    IF pos >= Len(inp) THEN [err |-> "IndexError", pos |-> pos, values |-> values]
    ELSE IF At(inp, pos) /= "[" THEN [err |-> "none", pos |-> pos, values |-> values]
    ELSE LET v == ScanValue(inp, pos + 1, <<>>)
         IN  IF v.err /= "none" THEN [err |-> v.err, pos |-> pos, values |-> values]
             ELSE ScanValues(inp, v.ind + 1, Append(values, v.w))

\* parse.get_property(): [err, pos, key, values].
get_property(inp, pos) ==
    LET k == ScanKey(inp, pos)
        fail(e) == [err |-> e, pos |-> pos, key |-> <<>>, values |-> <<>>]
    IN  IF k.err /= "none" THEN fail(k.err)
        ELSE IF IsLowerChar(At(inp, k.ind))
        THEN fail("ValueError: property must be in uppercase")
        ELSE IF At(inp, k.ind) /= "["
        THEN fail("ValueError: properties without delimiter")
        ELSE LET vs == ScanValues(inp, k.ind, <<>>)
             IN  [err |-> vs.err, pos |-> vs.pos,
                  key |-> Slice(inp, pos, k.ind), values |-> vs.values]

\* properties.update({key: values}) (sgf.py:295): a key already in the dict
\* keeps its place and takes the new values, a new key goes to the end.
DictUpdate(props, key, values) ==
    IF \E i \in 1..Len(props) : props[i][1] = key
    THEN [i \in 1..Len(props) |->
            IF props[i][1] = key THEN <<key, values>> ELSE props[i]]
    ELSE Append(props, <<key, values>>)

\* The loop "while input[pos] == '(': pos += 1" (sgf.py:289-290): [err, pos].
RECURSIVE SkipOpen(_, _)
SkipOpen(inp, pos) ==
    IF pos >= Len(inp) THEN [err |-> "IndexError", pos |-> pos]
    ELSE IF At(inp, pos) = "(" THEN SkipOpen(inp, pos + 1)
    ELSE [err |-> "none", pos |-> pos]

\* The loop "while input[pos] not in ('(', ')', ';')" (sgf.py:294-295):
\* [err, pos, properties].
RECURSIVE ScanProperties(_, _, _)
ScanProperties(inp, pos, props) ==
    IF pos >= Len(inp) THEN [err |-> "IndexError", pos |-> pos, properties |-> props]
    ELSE IF At(inp, pos) \in {"(", ")", ";"}
    THEN [err |-> "none", pos |-> pos, properties |-> props]
    ELSE LET p == get_property(inp, pos)
         IN  IF p.err /= "none"
             THEN [err |-> p.err, pos |-> pos, properties |-> props]
             ELSE ScanProperties(inp, p.pos, DictUpdate(props, p.key, p.values))

RECURSIVE get_node(_, _)
RECURSIVE ScanChildren(_, _, _)

\* The loop "while pos < len(input) and input[pos] != ')'" (sgf.py:296-297):
\* [err, pos, children].
ScanChildren(inp, pos, children) ==
    IF pos >= Len(inp) \/ At(inp, pos) = ")"
    THEN [err |-> "none", pos |-> pos, children |-> children]
    ELSE LET c == get_node(inp, pos)
         IN  IF c.err /= "none"
             THEN [err |-> c.err, pos |-> pos, children |-> children]
             ELSE ScanChildren(inp, c.pos, Append(children, c.tree))

\* parse.get_node(): [err, pos, tree].
get_node(inp, pos) ==
    LET open == SkipOpen(inp, pos)
        fail(e) == [err |-> e, pos |-> pos, tree |-> None]
    IN  IF open.err /= "none" THEN fail(open.err)
        ELSE IF At(inp, open.pos) = ")" THEN fail("ValueError: tree with no nodes")
        ELSE LET ps == ScanProperties(inp, open.pos + 1, <<>>)
             IN  IF ps.err /= "none" THEN fail(ps.err)
                 ELSE LET cs == ScanChildren(inp, ps.pos, <<>>)
                      IN  IF cs.err /= "none" THEN fail(cs.err)
                          ELSE [err  |-> "none",
                                pos  |-> cs.pos + 1,
                                tree |-> SgfTree(ps.properties, cs.children)]

\* parse(input): [err, tree].
parse(inp) ==
    IF inp = <<>> \/ inp[1] /= "("
    THEN [err |-> "ValueError: tree missing", tree |-> None]
    ELSE LET r == get_node(StripWhitespace(inp), 1)
         IN  [err |-> r.err, tree |-> r.tree]

-----------------------------------------------------------------------------
(* sgf.py : serialize *)

\* str.replace(ch, repl) for a one-character ch.
RECURSIVE Replace(_, _, _)
Replace(s, ch, repl) ==
    IF s = <<>> THEN <<>>
    ELSE (IF Head(s) = ch THEN repl ELSE <<Head(s)>>) \o Replace(Tail(s), ch, repl)

\* serialize.escape_value(value).
escape_value(value) ==
    Replace(Replace(value, "\\", <<"\\", "\\">>), "]", <<"\\", "]">>)

\* "][".join(escaped_values).
RECURSIVE JoinValues(_)
JoinValues(values) ==
    IF values = <<>> THEN <<>>
    ELSE IF Len(values) = 1 THEN escape_value(values[1])
    ELSE escape_value(values[1]) \o <<"]", "[">> \o JoinValues(Tail(values))

\* The for loop of serialize_node over the items of the dict.
RECURSIVE SerializeProperties(_)
SerializeProperties(props) ==
    IF props = <<>> THEN <<>>
    ELSE Head(props)[1] \o <<"[">> \o JoinValues(Head(props)[2]) \o <<"]">>
         \o SerializeProperties(Tail(props))

\* serialize.serialize_node(node).
serialize_node(node) == <<";">> \o SerializeProperties(node.properties)

RECURSIVE serialize(_)
RECURSIVE SerializeChildren(_)

\* "".join(f"({serialize(child)})" for child in tree.children).
SerializeChildren(children) ==
    IF children = <<>> THEN <<>>
    ELSE <<"(">> \o serialize(Head(children)) \o <<")">>
         \o SerializeChildren(Tail(children))

\* Mutant of serialize: a sole child is wrapped in parentheses like the
\* children of a node that has several.
serialize_WrapsSoleChild(t) ==
    IF t.children = <<>> THEN serialize_node(t)
    ELSE serialize_node(t) \o SerializeChildren(t.children)

\* serialize(tree).
serialize(t) ==
    IF t.children = <<>> THEN serialize_node(t)
    ELSE IF Len(t.children) = 1
    THEN serialize_node(t) \o serialize(t.children[1])
    ELSE serialize_node(t) \o SerializeChildren(t.children)

\* SgfTree.to_sgf() without a path.
to_sgf(t) == <<"(">> \o serialize(t) \o <<")">>

\* SgfTree.__eq__: the property dicts are equal as dicts (whatever the order
\* of their keys), the children are equal one by one in order.
RECURSIVE TreeEq(_, _)
TreeEq(t, u) ==
    /\ {t.properties[i] : i \in 1..Len(t.properties)}
         = {u.properties[i] : i \in 1..Len(u.properties)}
    /\ Len(t.children) = Len(u.children)
    /\ \A i \in 1..Len(t.children) : TreeEq(t.children[i], u.children[i])

-----------------------------------------------------------------------------
(* sgf.py : SgfTree.move_sequence ; game.py : tree conversion *)

\* dict.get(key): <<>> for a missing key, else <<values>>.
DictGet(props, key) ==
    IF \E i \in 1..Len(props) : props[i][1] = key
    THEN <<props[CHOOSE i \in 1..Len(props) : props[i][1] = key][2]>>
    ELSE None

\* The largest board side SgfTree.get_board_size accepts (sgf.py:207, 211).
MAX_BOARD_SIZE == 19

\* [int(txt) for txt in fields]: [err, val].
RECURSIVE ParseInts(_)
ParseInts(fields) ==
    IF fields = <<>> THEN [err |-> "none", val |-> <<>>]
    ELSE LET h == ParseInt(Head(fields))
             t == ParseInts(Tail(fields))
         IN  IF h = None
             THEN [err |-> "ValueError: invalid literal for int", val |-> <<>>]
             ELSE IF t.err /= "none" THEN t
             ELSE [err |-> "none", val |-> <<h[1]>> \o t.val]

\* SgfTree.get_board_size(): [err, size].
get_board_size(t) ==
    LET sz   == DictGet(t.properties, <<"S", "Z">>)
        ints == ParseInts(Split(sz[1][1], ":", <<>>))
    IN  IF sz = None THEN [err |-> "KeyError", size |-> None]
        ELSE IF sz[1] = <<>> THEN [err |-> "IndexError", size |-> None]
        ELSE IF ints.err /= "none" THEN [err |-> ints.err, size |-> None]
        ELSE IF ints.val[1] < 0 \/ ints.val[1] > MAX_BOARD_SIZE
        THEN [err |-> "ValueError: invalid board size", size |-> None]
        ELSE [err |-> "none", size |-> GameSize(ints.val)]

\* The for loop over ("B", "W") of move_sequence (sgf.py:180-191) on one
\* node: <<>> when the node carries no move, else <<color, move[0]>>.
NodeMove(node) ==
    LET b == DictGet(node.properties, <<"B">>)
        w == DictGet(node.properties, <<"W">>)
    IN  IF b /= None /\ b[1] /= <<>> THEN <<"B", b[1][1]>>
        ELSE IF w /= None /\ w[1] /= <<>> THEN <<"W", w[1][1]>>
        ELSE None

\* Mutant of NextNode: the walk follows the last child, not the first.
NextNode_LastChild(node) ==
    IF node.children /= <<>> THEN <<node.children[Len(node.children)]>> ELSE None

\* The node move_sequence goes to next (sgf.py:193): <<>> or <<node>>.
NextNode(node) == IF node.children /= <<>> THEN <<node.children[1]>> ELSE None

\* The while loop of move_sequence (sgf.py:179-193) from one node on:
\* [err, ret].  bs is [err, size], the board size handed in or the outcome
\* of get_board_size, which is looked at when the first move is found.
RECURSIVE WalkMainLine(_, _, _)
WalkMainLine(node, bs, insert_tuple) ==
    LET mv   == NodeMove(node)
        nxt  == NextNode(node)
        rest == IF nxt = None THEN [err |-> "none", ret |-> <<>>]
                ELSE WalkMainLine(nxt[1], bs, insert_tuple)
        gtp  == sgf_to_gtp(mv[2], bs.size)
        gtp_move == <<mv[1], " ">> \o gtp.ret
    IN  IF mv = None THEN rest
        ELSE IF bs.err /= "none" THEN [err |-> bs.err, ret |-> None]
        ELSE IF gtp.err /= "none" THEN [err |-> gtp.err, ret |-> None]
        ELSE IF rest.err /= "none" THEN rest
        ELSE [err |-> "none",
              ret |-> <<(IF insert_tuple THEN SplitSpace(gtp_move, <<>>)
                         ELSE gtp_move)>> \o rest.ret]

\* SgfTree.move_sequence(board_size, insert_tuple): [err, ret].  board_size
\* is <<>> (not provided) or <<size>>.
move_sequence(t, board_size, insert_tuple) ==
    WalkMainLine(t,
                 IF board_size = None THEN get_board_size(t)
                 ELSE [err |-> "none", size |-> board_size[1]],
                 insert_tuple)

\* s[i] for a Python index i on a string: negative indices count from the
\* end; <<>> where Python raises IndexError.
PyIndex(s, i) ==
    IF 0 <= i /\ i < Len(s) THEN <<s[i + 1]>>
    ELSE IF -Len(s) <= i /\ i < 0 THEN <<s[Len(s) + i + 1]>>
    ELSE None

\* Move.to_sgf(): [err, ret], ret the dict {color.upper(): [pos_sgf]}.  A
\* pass has no position: unpacking None raises TypeError (move.py:167).
move_to_sgf(move) ==
    IF move.pos = None THEN [err |-> "TypeError", ret |-> None]
    ELSE LET cx == PyIndex(VALID_COLUMN_SGF, move.pos[1])
             cy == PyIndex(VALID_COLUMN_SGF, move.pos[2])
         IN  IF cx = None \/ cy = None THEN [err |-> "IndexError", ret |-> None]
             ELSE [err |-> "none",
                   ret |-> <<(<<(<<UpperChar(move.color)>>),
                                <<(<<cx[1], cy[1]>>)>>>>)>>]

\* The fixed identification block to_sgftree adds to the root (game.py:135).
SGF_PROPERTIES ==
    << <<(<<"G", "M">>), <<(<<"1">>)>>>>,
       <<(<<"F", "F">>), <<(<<"4">>)>>>>,
       <<(<<"C", "A">>), <<(<<"U", "T", "F", "-", "8">>)>>>> >>

\* dict.update(other) (game.py:135).
RECURSIVE DictUpdateAll(_, _)
DictUpdateAll(props, other) ==
    IF other = <<>> THEN props
    ELSE DictUpdateAll(DictUpdate(props, Head(other)[1], Head(other)[2]), Tail(other))

\* The size formatting of to_sgftree (game.py:123-126).
SizeText(sz) ==
    IF sz[1] /= sz[2] THEN IntToStr(sz[1]) \o <<":">> \o IntToStr(sz[2])
    ELSE IntToStr(sz[1])

\* The loop of to_sgftree that builds the tree structure (game.py:145-149):
\* [err, children], the children of the node the loop stands on.
RECURSIVE MoveChain(_)
MoveChain(ms) ==
    IF ms = <<>> THEN [err |-> "none", children |-> <<>>]
    ELSE LET p    == move_to_sgf(Head(ms))
             rest == MoveChain(Tail(ms))
         IN  IF p.err /= "none" THEN [err |-> p.err, children |-> <<>>]
             ELSE IF rest.err /= "none" THEN rest
             ELSE [err |-> "none",
                   children |-> <<SgfTree(p.ret, rest.children)>>]

\* The root properties of to_sgftree (game.py:128-140).
RootProperties(ru, sz, km, ha, ab, aw) ==
    LET base == DictUpdateAll(
                  << <<(<<"R", "U">>), <<ru>>>>,
                     <<(<<"S", "Z">>), <<SizeText(sz)>>>>,
                     <<(<<"K", "M">>), <<FloatToStr(km)>>>>,
                     <<(<<"H", "A">>), <<IntToStr(ha)>>>> >>,
                  SGF_PROPERTIES)
        withAB == IF ab /= None THEN DictUpdate(base, <<"A", "B">>, ab[1]) ELSE base
    IN  IF aw /= None THEN DictUpdate(withAB, <<"A", "W">>, aw[1]) ELSE withAB

\* Game.to_sgftree(): [err, tree].
to_sgftree(ru, sz, km, ha, ab, aw, ms) ==
    LET chain == MoveChain(ms)
    IN  IF chain.err /= "none" THEN [err |-> chain.err, tree |-> None]
        ELSE [err |-> "none",
              tree |-> SgfTree(RootProperties(ru, sz, km, ha, ab, aw), chain.children)]

\* The for loop of from_sgftree (game.py:110-111): [err, moves, board].
RECURSIVE PlayAll(_, _, _, _, _)
PlayAll(gtps, ms, ha, b, sz) ==
    IF gtps = <<>> THEN [err |-> "none", moves |-> ms, board |-> b]
    ELSE LET r == play(Head(gtps), ms, ha, b, sz)
         IN  IF r.err /= "none" THEN r
             ELSE PlayAll(Tail(gtps), r.moves, ha, r.board, sz)

\* The element of a one-element set.
Only(S) == CHOOSE x \in S : TRUE

\* from_sgftree when every move was played: the game (game.py:113).
FromTreePlayed(RU, km, ab, aw, g, run) ==
    IF run.err /= "none" THEN [err |-> run.err, game |-> None]
    ELSE [err |-> "none",
          game |-> [ruleset |-> RU, size |-> g.size, komi |-> km,
                    handicap |-> g.handicap, AB |-> ab, AW |-> aw,
                    moves |-> run.moves, board |-> run.board]]

\* from_sgftree once the main line is read: its moves are played in order
\* (game.py:110-111).
FromTreeMoves(RU, km, ab, aw, g, seq) ==
    IF seq.err /= "none" THEN [err |-> seq.err, game |-> None]
    ELSE Only({ FromTreePlayed(RU, km, ab, aw, g, run) :
                  run \in {PlayAll(seq.ret, g.moves, g.handicap, g.board, g.size)} })

\* from_sgftree once the Game is constructed: tree.move_sequence()
\* (game.py:108).
FromTreeGame(t, RU, km, ab, aw, g) ==
    IF g.err /= "none" THEN [err |-> g.err, game |-> None]
    ELSE Only({ FromTreeMoves(RU, km, ab, aw, g, seq) :
                  seq \in {move_sequence(t, None, FALSE)} })

\* Game.from_sgftree(tree): [err, game].  Game(**root_properties) needs the
\* keys RU, SZ and KM (TypeError without them), HA defaults to ["0"], AB and
\* AW to None, any other key is taken by **kwargs.
from_sgftree(t) ==
    LET props == t.properties
        RU    == DictGet(props, <<"R", "U">>)
        SZ    == DictGet(props, <<"S", "Z">>)
        KM    == DictGet(props, <<"K", "M">>)
        HA    == IF DictGet(props, <<"H", "A">>) = None THEN <<(<<(<<"0">>)>>)>>
                 ELSE DictGet(props, <<"H", "A">>)
        ab    == DictGet(props, <<"A", "B">>)
        aw    == DictGet(props, <<"A", "W">>)
        ints  == ParseInts(Split(SZ[1][1], ":", <<>>))
        km    == ToFloat(KM[1][1])
        ha    == ParseInt(HA[1][1])
        fail(e) == [err |-> e, game |-> None]
    IN  IF RU = None \/ SZ = None \/ KM = None THEN fail("TypeError")
        ELSE IF RU[1] = <<>> \/ SZ[1] = <<>> THEN fail("IndexError")
        ELSE IF ints.err /= "none" THEN fail(ints.err)
        ELSE IF KM[1] = <<>> THEN fail("IndexError")
        ELSE IF km.err /= "none" THEN fail(km.err)
        ELSE IF HA[1] = <<>> THEN fail("IndexError")
        ELSE IF ha = None THEN fail("ValueError: invalid literal for int")
        ELSE Only({ FromTreeGame(t, RU[1][1], km.val, ab, aw, g) :
                      g \in {GameInit(ints.val, ha[1], ab, aw)} })

-----------------------------------------------------------------------------
(* Inputs *)

\* Rulesets and komi strings (tests/data/test_game.py:13-48).
Japanese == <<"J", "a", "p", "a", "n", "e", "s", "e">>

Chinese == <<"C", "h", "i", "n", "e", "s", "e">>

KM65 == <<"6", ".", "5">>

KM7 == <<"7">>

KM0 == <<"0", ".", "0">>

DefaultKomi == ToFloat(KM65).val

\* SGF coordinates.
aa == <<"a", "a">>
ab == <<"a", "b">>
ba == <<"b", "a">>
bb == <<"b", "b">>

\* The constructor calls Game(RU, SZ, KM, HA, AB, AW) the model starts from.
\* RU is RU[0] and KM is KM[0].
\* SZ is SZ[0] after split(":") and int(): one integer, or width and height.
\* AB and AW are None or <<list of SGF coordinates>>.  The last two calls
\* raise (a stone on an occupied point, a stone off the board).
GameInputs ==
    { [RU |-> Japanese, KM |-> KM65, SZ |-> <<2>>,    HA |-> 0, AB |-> None,           AW |-> None],
      [RU |-> Japanese, KM |-> KM65, SZ |-> <<2>>,    HA |-> 2, AB |-> <<(<<aa, bb>>)>>, AW |-> None],
      [RU |-> Chinese,  KM |-> KM7,  SZ |-> <<2>>,    HA |-> 1, AB |-> <<(<<>>)>>,     AW |-> <<(<<ba, ab>>)>>],
      [RU |-> Japanese, KM |-> KM0,  SZ |-> <<1, 2>>, HA |-> 0, AB |-> None,           AW |-> None],
      [RU |-> Chinese,  KM |-> KM65, SZ |-> <<1, 2>>, HA |-> 2, AB |-> <<(<<aa>>)>>,   AW |-> None],
      [RU |-> Japanese, KM |-> KM7,  SZ |-> <<2, 1>>, HA |-> 1, AB |-> None,           AW |-> None],
      [RU |-> Chinese,  KM |-> KM0,  SZ |-> <<2, 1>>, HA |-> 0, AB |-> None,           AW |-> <<(<<ba>>)>>],
      [RU |-> Japanese, KM |-> KM65, SZ |-> <<2>>,    HA |-> 0, AB |-> <<(<<aa>>)>>,   AW |-> <<(<<aa>>)>>],
      [RU |-> Japanese, KM |-> KM65, SZ |-> <<2, 1>>, HA |-> 0, AB |-> <<(<<ab>>)>>,   AW |-> None] }

GtpColumns == {"A", "B", "C"}

GtpRows == {<<"0">>, <<"1">>, <<"2">>, <<"3">>}

\* The GTP strings handed to Game.play: well-formed moves and passes, and
\* malformed ones.
GtpInputs ==
    { <<c, " ", col>> \o row : c \in {"b", "w"}, col \in GtpColumns, row \in GtpRows }
    \cup { <<c, " ">> \o PASS : c \in {"b", "w", "B"} }
    \cup { <<"W", " ", "a", "1">>, <<"b">>, <<"b", " ", "A", "1", " ", "w">>,
           <<"x", " ", "A", "1">>, <<"w", " ", "I", "1">>, <<"b", " ", "A">>,
           <<"b", " ">> }

\* Positions handed to Game.place and carried by the moves handed to
\* Board.add_move: every cell and some positions off the board.
PosInputs(sz) ==
    Cells(sz) \cup {<<-1, 0>>, <<sz[1], 0>>, <<0, sz[2]>>}

\* The (color, pos) arguments handed to Game.place.  pos is [kind, val] with
\* kind "tuple" (one position), "list" (a list of positions) or "other";
\* "x" is a colour that is none of B, W, b, w.
PlaceInputs(sz) ==
    { [color |-> c, arg |-> [kind |-> "tuple", val |-> p]] :
        c \in {"B", "W"}, p \in PosInputs(sz) }
    \cup { [color |-> "B", arg |-> [kind |-> "list", val |-> <<p, q>>]] :
             p \in {<<0, 0>>, <<1, 0>>}, q \in {<<0, 0>>, <<0, 1>>} }
    \cup { [color |-> "x", arg |-> [kind |-> "tuple", val |-> <<0, 0>>]],
           [color |-> "W", arg |-> [kind |-> "list", val |-> <<>>]],
           [color |-> "W", arg |-> [kind |-> "other", val |-> None]] }

\* The Move objects handed to Board.add_move directly: built earlier by
\* Move(game, color, pos), or taken from game.moves.
MoveInputs(sz, ms) ==
    { NewMove(c, p) : c \in {"B", "W"}, p \in Cells(sz) \cup {<<sz[1], 0>>} }
    \cup { ms[i] : i \in 1..Len(ms) }

-----------------------------------------------------------------------------
(* The state machine *)

\* The stones on the grid that carry no turn index (set up, not played).
SetupStones == {p \in DOMAIN board : board[p] /= None /\ Stone(board[p]).turn = None}

Init ==
    \E in \in GameInputs :
        LET g == GameInit(in.SZ, in.HA, in.AB, in.AW)
        IN  /\ g.err = "none"
            /\ calls = <<>>
            /\ ruleset = in.RU
            /\ komi = ToFloat(in.KM).val
            /\ size = g.size
            /\ handicap = g.handicap
            /\ AB = in.AB
            /\ AW = in.AW
            /\ moves = g.moves
            /\ board = g.board
            /\ text = <<>>
            /\ tree = None
            /\ last = [op |-> "init", err |-> "none", ret |-> None]

\* game.play(gtp)
Play(gtp) ==
    /\ LET r == play(gtp, moves, handicap, board, size)
       IN  /\ Len(r.moves) <= MaxMoves
           /\ moves' = r.moves
           /\ board' = r.board
           /\ last' = [op |-> "play", err |-> r.err, ret |-> None]
    /\ UNCHANGED <<calls, ruleset, size, komi, handicap, AB, AW, text, tree>>

\* Mutant of Place: a stone set up is also registered as a move.
Place_RegistersMove(color, arg) ==
    /\ Cardinality(SetupStones) < MaxSetup
    /\ LET r == place(color, arg, moves, handicap, board, size)
       IN  /\ board' = r.board
           /\ moves' = IF r.err = "none" THEN Append(moves, NewMove(color, None))
                       ELSE moves
           /\ last' = [op |-> "place", err |-> r.err, ret |-> None]
    /\ UNCHANGED <<calls, ruleset, size, komi, handicap, AB, AW, text, tree>>

\* game.place(color, arg)
Place(color, arg) ==
    /\ Cardinality(SetupStones) < MaxSetup
    /\ LET r == place(color, arg, moves, handicap, board, size)
       IN  /\ board' = r.board
           /\ last' = [op |-> "place", err |-> r.err, ret |-> None]
    /\ UNCHANGED <<calls, ruleset, size, komi, handicap, AB, AW, moves, text, tree>>

\* game.board.add_move(move), for a Move object built earlier.
AddMove(move) ==
    /\ Cardinality(SetupStones) < MaxSetup
    /\ LET r == add_move(board, size, move)
       IN  /\ board' = r.board
           /\ last' = [op |-> "add_move", err |-> r.err, ret |-> None]
    /\ UNCHANGED <<calls, ruleset, size, komi, handicap, AB, AW, moves, text, tree>>

\* game.board.update_board()
UpdateBoard ==
    /\ LET r == update_board(board, size)
       IN  /\ board' = r.board
           /\ last' = [op |-> "update_board", err |-> "none", ret |-> r.removed]
    /\ UNCHANGED <<calls, ruleset, size, komi, handicap, AB, AW, moves, text, tree>>

Next ==
    \/ \E gtp \in GtpInputs : Play(gtp)
    \/ \E in \in PlaceInputs(size) : Place(in.color, in.arg)
    \/ \E move \in MoveInputs(size, moves) : AddMove(move)
    \/ UpdateBoard

Spec == Init /\ [][Next]_vars

\* game.board.remove_move(move), for a Move object built earlier.
RemoveMove(move) ==
    /\ LET r == remove_move(board, size, move)
       IN  /\ board' = r.board
           /\ last' = [op |-> "remove_move", err |-> r.err, ret |-> None]
    /\ UNCHANGED <<calls, ruleset, size, komi, handicap, AB, AW, moves, text, tree>>

\* A board that is edited directly: add_move, remove_move and update_board
\* on the board of a constructed game.
NextBoard ==
    \/ \E move \in MoveInputs(size, moves) : AddMove(move)
    \/ \E move \in MoveInputs(size, moves) : RemoveMove(move)
    \/ UpdateBoard

SpecBoard == Init /\ [][NextBoard]_vars

\* A game that is only played: construction followed by Game.play calls.
NextPlay == \E gtp \in GtpInputs : Play(gtp)

SpecPlay == Init /\ [][NextPlay]_vars

\* A game that is played and whose captures are resolved by explicit
\* update_board calls between the plays.
NextPlayUpdate ==
    \/ \E gtp \in GtpInputs : Play(gtp)
    \/ UpdateBoard

SpecPlayUpdate == Init /\ [][NextPlayUpdate]_vars

\* The well-formed GTP strings among GtpInputs that name a point of a 2x2
\* board, and the passes.
WellFormedGtp ==
    { <<c, " ", col>> \o row : c \in {"b", "w"}, col \in {"A", "B"},
                               row \in {<<"1">>, <<"2">>} }
    \cup { <<c, " ">> \o PASS : c \in {"b", "w"} }

\* Every operation that writes the grid, on the board of a constructed
\* game: play, place, add_move, remove_move and update_board.
NextWrites ==
    \/ \E gtp \in WellFormedGtp : Play(gtp)
    \/ \E in \in PlaceInputs(size) : Place(in.color, in.arg)
    \/ \E move \in MoveInputs(size, moves) : AddMove(move)
    \/ \E move \in MoveInputs(size, moves) : RemoveMove(move)
    \/ UpdateBoard

SpecWrites == Init /\ [][NextWrites]_vars

\* A game in which stones are set up with Game.place between well-formed
\* plays.
NextPlayPlace ==
    \/ \E gtp \in WellFormedGtp : Play(gtp)
    \/ \E in \in PlaceInputs(size) : Place(in.color, in.arg)

SpecPlayPlace == Init /\ [][NextPlayPlace]_vars

-----------------------------------------------------------------------------
(* Game.next_color as a function of the move list and the handicap: the    *)
(* move list is any list of Move objects (test_next_color assigns          *)
(* game.moves directly), colours stored in either letter case.             *)

PassMoves(n) ==
    { ms \in [1..n -> {NewMove(c, None) : c \in ValidColors}] : TRUE }

InitNextColor ==
    /\ calls = <<>>
    /\ ruleset = Japanese
    /\ komi = DefaultKomi
    /\ size = <<2, 2>>
    /\ board = EmptyGrid(size)
    /\ AB = None
    /\ AW = None
    /\ handicap \in 0..3
    /\ \E n \in 0..MaxMoves : \E ms \in PassMoves(n) :
          moves = [i \in 1..n |-> WithTurn(ms[i], SubSeq(ms, 1, i - 1))]
    /\ text = <<>>
    /\ tree = None
    /\ last = [op |-> "init", err |-> "none", ret |-> None]

\* game.next_color()
NextColor ==
    /\ last' = [op |-> "next_color", err |-> "none", ret |-> next_color(moves, handicap)]
    /\ UNCHANGED <<calls, ruleset, size, komi, handicap, AB, AW, moves, board, text, tree>>

SpecNextColor == InitNextColor /\ [][NextColor]_vars

-----------------------------------------------------------------------------
(* The conversions of move.py as pure functions, on games of several       *)
(* sizes with an empty board: the string they are applied to is drawn at   *)
(* the start, or a Move built by Move(game, color, pos).                   *)

\* The sizes (width, height) of the games: square and rectangular boards,
\* the 9x13 board of the size parsing tests and the 19x19 board.
MoveSizes == {<<2, 2>>, <<1, 2>>, <<2, 1>>, <<3, 2>>, <<9, 13>>, <<19, 19>>}

\* The GTP string "<c> <col><row>".
GtpText(c, col, row) == <<c, " ", col>> \o IntToStr(row)

GtpTextColumns == {"A", "b", "C", "H", "J", "T", "Z", "I"}

GtpTextRows(sz) == (-1)..(sz[2] + 1)

\* The GTP strings handed to Move.from_gtp on a board of size sz.
GtpTexts(sz) ==
    { GtpText(c, col, row) : c \in {"b", "W"}, col \in GtpTextColumns,
                             row \in GtpTextRows(sz) }
    \cup { <<c, " ">> \o PASS : c \in {"b", "w", "B", "W"} }
    \cup { <<"b">>, <<"b", "A", "1">>, <<"b", " ", "A", "1", " ", "w">>,
           <<"b", " ", " ", "A", "1">>,
           <<"x", " ", "A", "1">>, <<"b", "w", " ", "A", "1">>, <<" ", "A", "1">>,
           <<"b", " ", "1", "1">>, <<"w", " ", "i", "1">>,
           <<"b", " ", "A">>, <<"b", " ", "A", "x">>, <<"b", " ", "A", "1", "x">>,
           <<"b", " ", "P", "A", "S", "S">>,
           <<"b", " ">> }

SgfLetters == {"a", "b", "c", "h", "i", "m", "s", "t", "y", "z"}

\* The SGF coordinates handed to Move.sgf_to_gtp.
SgfCoordTexts ==
    { <<p, q>> : p \in SgfLetters, q \in SgfLetters }
    \cup { <<>>, <<"a">>, <<"A", "a">>, <<"a", "1">>, <<"a", "a", "a">> }

MoveTexts(sz) == GtpTexts(sz) \cup SgfCoordTexts

InitMove ==
    /\ calls = <<>>
    /\ ruleset = Japanese
    /\ komi = DefaultKomi
    /\ size \in MoveSizes
    /\ board = EmptyGrid(size)
    /\ AB = None
    /\ AW = None
    /\ handicap = 0
    /\ moves = <<>>
    /\ tree = None
    /\ \/ /\ text \in MoveTexts(size)
          /\ last = [op |-> "init", err |-> "none", ret |-> None]
       \/ /\ text = <<>>
          /\ \E c \in ValidColors, pos \in Cells(size) \cup {None} :
                LET m == MoveInit(c, pos, moves, handicap, board, size)
                IN  last = [op |-> "Move", err |-> m.err, ret |-> m.move]

\* Whether the last call returned a Move.
ReturnedMove == last.op \in {"Move", "from_gtp"} /\ last.err = "none"

\* Move.from_gtp(game, text)
FromGtp ==
    /\ LET r == from_gtp(text, moves, handicap, board, size)
       IN  last' = [op |-> "from_gtp", err |-> r.err,
                    ret |-> IF r.err = "none" THEN r.move ELSE None]
    /\ UNCHANGED <<calls, ruleset, size, komi, handicap, AB, AW, moves, board, text, tree>>

\* text = move.to_gtp(), for the Move the last call returned.
ToGtp ==
    /\ ReturnedMove
    /\ LET r == to_gtp(last.ret, size)
       IN  /\ text' = IF r.err = "none" THEN r.ret ELSE text
           /\ last' = [op |-> "to_gtp", err |-> r.err, ret |-> r.ret]
    /\ UNCHANGED <<calls, ruleset, size, komi, handicap, AB, AW, moves, board, tree>>

\* Move.sgf_to_gtp(text, game.size)
SgfToGtp ==
    /\ LET r == sgf_to_gtp(text, size)
       IN  last' = [op |-> "sgf_to_gtp", err |-> r.err, ret |-> r.ret]
    /\ UNCHANGED <<calls, ruleset, size, komi, handicap, AB, AW, moves, board, text, tree>>

NextMove ==
    \/ FromGtp
    \/ ToGtp
    \/ SgfToGtp

SpecMove == InitMove /\ [][NextMove]_vars

-----------------------------------------------------------------------------
(* parse, serialize and SgfTree.to_sgf as pure functions: the text and the *)
(* tree they are applied to are drawn at the start.                        *)

\* Values have at most MaxValueLen units (a character or an escape pair).
MaxValueLen == 3

\* The strings made of at most n of the given units.
RECURSIVE UnitStrings(_, _)
UnitStrings(units, n) ==
    IF n = 0 THEN {<<>>}
    ELSE LET S == UnitStrings(units, n - 1)
         IN  S \cup {u \o v : u \in units, v \in S}

\* What stands between the brackets of a value in an SGF text: ordinary
\* characters, spaces, tabs, soft line breaks and the two escapes.
RawValues ==
    UnitStrings({<<"a">>, <<" ">>, <<"\t">>, <<"\\", "\n">>,
                 <<"\\", "\\">>, <<"\\", "]">>}, MaxValueLen)

\* The values a tree holds: ordinary characters, spaces, backslashes and
\* closing brackets (test_escape_characters).
PlainValues == UnitStrings({<<"a">>, <<" ">>, <<"\\">>, <<"]">>}, MaxValueLen)

\* The SGF text "(;C[<raw>])".
ValueText(raw) == <<"(", ";", "C", "[">> \o raw \o <<"]", ")">>

\* SGF texts with one, several and nested nodes and variations, with
\* whitespace between the tokens, and malformed ones (test_parse_invalid).
StructureTexts ==
    { <<"(", ";", "A", "[", "a", "]", ";", "B", "[", "b", "]", ")">>,
      <<"(", ";", "A", "[", "a", "]", "(", ";", "B", "[", "b", "]", ")",
        "(", ";", "D", "[", "d", "]", ")", ")">>,
      <<"(", ";", "A", "[", "a", "]", "(", ";", "B", "[", "b", "]", ";", "C", "[", "c", "]", ")",
        "(", ";", "D", "[", "d", "]", ")", ")">>,
      <<"(", "(", ";", "A", "[", "a", "]", "(", ";", "B", "[", "b", "]", ";", "C", "[", "c", "]", ")", ")",
        "(", ";", "D", "[", "d", "]", ")", ")">>,
      <<"(", ";", "A", "B", "[", "a", "a", "]", "[", "b", "b", "]", "C", "[", "x", "]", ")">>,
      <<"(", " ", ";", "\n", "C", "[", "a", "]", "\t", ")", "\n">>,
      <<"(", ";", "A", "[", "a", "]", "\n", ";", " ", "B", "[", "b", "]", ")">>,
      <<";", "C", "[", "a", "]">>,
      <<" ", "(", ";", "C", "[", "a", "]", ")">>,
      <<"(", ";", "c", "[", "a", "]", ")">>,
      <<"(", ";", "C", "c", "[", "a", "]", ")">>,
      <<"(", ";", "C", ")">>,
      <<"(", ";", "C", "1", "[", "a", "]", ")">>,
      <<"(", ";", "C", "[", "a", "]", "B", ";", "A", "[", "a", "]", ")">>,
      <<"(", ")">>,
      <<"(", ";", "C", "[", "a", "]", "(", ")", ")">>,
      <<"(", ";", "C", "[", "a", "]">>,
      <<"(", ";", "A", "[", "a", "]", ";", "B", "[", "b", "]">>,
      <<"(", ";", "A", "[", "a", "]", "(", ";", "B", "[", "b", "]", ")">>,
      <<"(", ";", "C", "[", "a">>,
      <<"(">> }

SgfTexts == {ValueText(v) : v \in RawValues} \cup StructureTexts

\* A node with one property.
Node(key, values, children) == SgfTree(<<(<<key, values>>)>>, children)

Leaf(key, value) == Node(key, <<value>>, <<>>)

\* The trees handed to serialize and to_sgf: SgfTree objects built directly,
\* as the tests build them.
TreeInputs ==
    { Leaf(<<"C">>, v) : v \in PlainValues }
    \cup
    { SgfTree(<<>>, <<>>),
      Node(<<"A", "B">>, <<(<<"a", "a">>), <<"b", "b">>>>, <<>>),
      Node(<<"C">>, <<(<<"a", " ", "\\">>), <<"b", " ", "]", " ", "c">>>>, <<>>),
      SgfTree(<<(<<(<<"C">>), <<(<<"r">>)>>>>), <<(<<"A", "B">>), <<(<<"a", "a">>)>>>>>>,
              <<Node(<<"B">>, <<(<<"b", "b">>)>>,
                     <<Leaf(<<"W">>, <<"c", "c">>)>>)>>),
      Node(<<"C">>, <<(<<"r">>)>>,
           <<Leaf(<<"B">>, <<"a", "a">>), Leaf(<<"W">>, <<"b", "b">>)>>),
      Node(<<"C">>, <<(<<"r">>)>>,
           <<Leaf(<<"B">>, <<"a", "a">>), Leaf(<<"W">>, <<"b", "b">>),
             Leaf(<<"B">>, <<"c", "c">>)>>),
      Node(<<"C">>, <<(<<"r">>)>>,
           <<Node(<<"B">>, <<(<<"a", "a">>)>>, <<Leaf(<<"W">>, <<"b", "b">>)>>),
             Leaf(<<"W">>, <<"c", "c">>)>>),
      Node(<<"C">>, <<(<<"r">>)>>,
           <<Node(<<"B">>, <<(<<"a", "a">>)>>,
                  <<Leaf(<<"W">>, <<"b", "b">>), Leaf(<<"W">>, <<"c", "c">>)>>)>>) }

InitSgf ==
    /\ calls = <<>>
    /\ ruleset = Japanese
    /\ komi = DefaultKomi
    /\ size = <<2, 2>>
    /\ board = EmptyGrid(size)
    /\ AB = None
    /\ AW = None
    /\ handicap = 0
    /\ moves = <<>>
    /\ \/ text \in SgfTexts /\ tree = None
       \/ text = <<>> /\ tree \in TreeInputs
    /\ last = [op |-> "init", err |-> "none", ret |-> None]

\* tree = parse(text): a call that raises assigns nothing.
Parse ==
    /\ LET r == parse(text)
       IN  /\ tree' = IF r.err = "none" THEN r.tree ELSE tree
           /\ last' = [op |-> "parse", err |-> r.err, ret |-> r.tree]
    /\ UNCHANGED <<calls, ruleset, size, komi, handicap, AB, AW, moves, board, text>>

\* serialize(tree)
Serialize ==
    /\ tree /= None
    /\ last' = [op |-> "serialize", err |-> "none", ret |-> serialize(tree)]
    /\ UNCHANGED <<calls, ruleset, size, komi, handicap, AB, AW, moves, board, text, tree>>

\* text = tree.to_sgf()
ToSgf ==
    /\ tree /= None
    /\ text' = to_sgf(tree)
    /\ last' = [op |-> "to_sgf", err |-> "none", ret |-> to_sgf(tree)]
    /\ UNCHANGED <<calls, ruleset, size, komi, handicap, AB, AW, moves, board, tree>>

NextSgf ==
    \/ Parse
    \/ Serialize
    \/ ToSgf

SpecSgf == InitSgf /\ [][NextSgf]_vars

-----------------------------------------------------------------------------
(* Game.to_sgftree and Game.from_sgftree on a game that is played: the      *)
(* tree is the one to_sgftree returned last, from_sgftree is applied to it  *)
(* right after it was returned.                                             *)

\* tree = game.to_sgftree(): a call that raises assigns nothing.
ToSgfTree ==
    /\ LET r == to_sgftree(ruleset, size, komi, handicap, AB, AW, moves)
       IN  /\ tree' = IF r.err = "none" THEN r.tree ELSE tree
           /\ last' = [op |-> "to_sgftree", err |-> r.err, ret |-> r.tree]
    /\ UNCHANGED <<calls, ruleset, size, komi, handicap, AB, AW, moves, board, text>>

\* Game.from_sgftree(tree), for the tree game.to_sgftree() just returned.
FromSgfTree ==
    /\ last.op = "to_sgftree" /\ last.err = "none"
    /\ \E r \in {from_sgftree(tree)} :
          last' = [op |-> "from_sgftree", err |-> r.err, ret |-> r.game]
    /\ UNCHANGED <<calls, ruleset, size, komi, handicap, AB, AW, moves, board, text, tree>>

NextTree ==
    \/ \E gtp \in GtpInputs : Play(gtp)
    \/ ToSgfTree
    \/ FromSgfTree

SpecTree == Init /\ [][NextTree]_vars

-----------------------------------------------------------------------------
(* SgfTree.move_sequence as a pure function: the tree it is called on is    *)
(* drawn at the start, with variations, nodes carrying both move            *)
(* properties, nodes carrying none, and passes.                             *)

SeqSizes == {<<2, 2>>, <<9, 13>>}

\* The property dicts of the nodes below the root.
NodeProps ==
    { <<>>,
      <<(<<(<<"C">>), <<(<<"x">>)>>>>)>>,
      <<(<<(<<"B">>), <<aa>>>>)>>,
      <<(<<(<<"W">>), <<bb>>>>)>>,
      <<(<<(<<"B">>), <<ab>>>>), <<(<<"W">>), <<ba>>>>>>,
      <<(<<(<<"W">>), <<ba>>>>), <<(<<"B">>), <<ab>>>>>>,
      <<(<<(<<"B">>), <<(<<>>)>>>>)>> }

SeqLeaves == {SgfTree(p, <<>>) : p \in NodeProps}

\* The nodes that open a side variation.
SideLeaves == {Leaf(<<"B">>, bb), Leaf(<<"W">>, aa)}

\* Lines of one or two nodes, the first with or without a side variation.
SeqLines ==
    SeqLeaves
    \cup {SgfTree(p, <<c>>) : p \in NodeProps, c \in SeqLeaves}
    \cup {SgfTree(p, <<c, d>>) : p \in NodeProps, c \in SeqLeaves, d \in SideLeaves}

\* The property dicts of the root: without SZ, with SZ, with SZ and a move.
RootProps(sz) ==
    { <<>>,
      <<(<<(<<"S", "Z">>), <<SizeText(sz)>>>>)>>,
      <<(<<(<<"S", "Z">>), <<SizeText(sz)>>>>), <<(<<"B">>), <<bb>>>>>> }

SeqTrees(sz) ==
    {SgfTree(p, <<c>>) : p \in RootProps(sz), c \in SeqLines}
    \cup {SgfTree(p, <<c, d>>) : p \in RootProps(sz), c \in SeqLines, d \in SideLeaves}

InitSeq ==
    /\ calls = <<>>
    /\ ruleset = Japanese
    /\ komi = DefaultKomi
    /\ size \in SeqSizes
    /\ board = EmptyGrid(size)
    /\ AB = None
    /\ AW = None
    /\ handicap = 0
    /\ moves = <<>>
    /\ text = <<>>
    /\ tree \in SeqTrees(size)
    /\ last = [op |-> "init", err |-> "none", ret |-> None]

\* tree.move_sequence(board_size, insert_tuple); the outcome is recorded
\* with the arguments of the call.
MoveSequence(board_size, insert_tuple) ==
    /\ LET r == move_sequence(tree, board_size, insert_tuple)
       IN  last' = [op |-> "move_sequence", err |-> r.err, ret |-> r.ret,
                    board_size |-> board_size, insert_tuple |-> insert_tuple]
    /\ UNCHANGED <<calls, ruleset, size, komi, handicap, AB, AW, moves, board, text, tree>>

NextSeq ==
    \E board_size \in {None, <<size>>}, insert_tuple \in BOOLEAN :
        MoveSequence(board_size, insert_tuple)

SpecSeq == InitSeq /\ [][NextSeq]_vars

-----------------------------------------------------------------------------
(* Board.sub_board on a game that is played. *)

\* game.board.sub_board(corner1, corner2); the outcome is recorded with the
\* corners of the call.
SubBoard(corner1, corner2) ==
    /\ LET r == sub_board(corner1, corner2, moves)
       IN  last' = [op |-> "sub_board", err |-> r.err,
                    ret |-> [size |-> r.size, board |-> r.board],
                    corner1 |-> corner1, corner2 |-> corner2]
    /\ UNCHANGED <<calls, ruleset, size, komi, handicap, AB, AW, moves, board, text, tree>>

NextSubBoard ==
    \/ \E gtp \in WellFormedGtp : Play(gtp)
    \/ \E corner1 \in Cells(size), corner2 \in Cells(size) : SubBoard(corner1, corner2)

SpecSubBoard == Init /\ [][NextSubBoard]_vars

-----------------------------------------------------------------------------
(* Board(game, size, game.moves): the grid rebuilt from the move list of a  *)
(* game that is played, captures being resolved by update_board calls.      *)

\* Board(self.game, self.size, self.moves).board (board.py:46)
Rebuild ==
    /\ LET r == board_from_moves(size, moves)
       IN  last' = [op |-> "board_from_moves", err |-> r.err,
                    ret |-> IF r.err = "none" THEN r.board ELSE None]
    /\ UNCHANGED <<calls, ruleset, size, komi, handicap, AB, AW, moves, board, text, tree>>

NextRebuild ==
    \/ \E gtp \in WellFormedGtp : Play(gtp)
    \/ UpdateBoard
    \/ Rebuild

SpecRebuild == Init /\ [][NextRebuild]_vars

-----------------------------------------------------------------------------
(* The capture engine on any grid: the board of a game on which stones of   *)
(* either colour, stored in either letter case, stand on any set of cells.  *)

\* The grids over a board of size sz with stones of the given colours, each
\* cell empty or holding a Move placed there.
Grids(sz, colours) ==
    { [p \in Cells(sz) |-> IF f[p] = "." THEN None ELSE <<NewMove(f[p], p)>>] :
        f \in [Cells(sz) -> colours \cup {"."}] }

\* The 3x3 grids whose four corners are empty: the centre and the middles
\* of the sides hold any stones.
CrossGrids ==
    { g \in Grids(<<3, 3>>, {"B", "W"}) :
        \A p \in {<<0, 0>>, <<2, 0>>, <<0, 2>>, <<2, 2>>} : g[p] = None }

InitGrid ==
    /\ calls = <<>>
    /\ ruleset = Japanese
    /\ komi = DefaultKomi
    /\ \/ size = <<3, 2>> /\ board \in Grids(size, {"B", "W"})
       \/ size = <<2, 2>> /\ board \in Grids(size, ValidColors)
       \/ size = <<3, 3>> /\ board \in CrossGrids
    /\ AB = None
    /\ AW = None
    /\ handicap = 0
    /\ moves = <<>>
    /\ text = <<>>
    /\ tree = None
    /\ last = [op |-> "init", err |-> "none", ret |-> None]

\* game.board._group_and_liberties(start); the outcome is recorded with the
\* start cell.
GroupAndLiberties(start) ==
    /\ LET r == group_and_liberties(board, size, start)
       IN  last' = [op |-> "group_and_liberties", err |-> "none",
                    ret |-> r, start |-> start]
    /\ UNCHANGED <<calls, ruleset, size, komi, handicap, AB, AW, moves, board, text, tree>>

NextGrid ==
    \/ UpdateBoard
    \/ \E start \in Cells(size) : GroupAndLiberties(start)

SpecGrid == InitGrid /\ [][NextGrid]_vars

-----------------------------------------------------------------------------
(* The capture engine one loop iteration at a time.  calls holds a frame    *)
(* per call in progress, the innermost last: the locals of                  *)
(* _group_and_liberties (with the cells pushed so far and the number of     *)
(* pops, kept for the record) or of update_board (with the cells still to   *)
(* scan and the groups evaluated so far).                                   *)

\* The grids of both colours without an empty cell.
FullGrids(sz) == {g \in Grids(sz, {"B", "W"}) : \A p \in Cells(sz) : g[p] /= None}

\* The grids the calls are followed on: every 2x2 grid of stones of the two
\* colours, every 3x2 grid of stones of one colour, and every 3x2 grid
\* without an empty cell.
InitSteps ==
    /\ calls = <<>>
    /\ ruleset = Japanese
    /\ komi = DefaultKomi
    /\ \/ size = <<2, 2>> /\ board \in Grids(size, {"b", "W"})
       \/ size = <<3, 2>> /\ board \in Grids(size, {"B"})
       \/ size = <<3, 2>> /\ board \in FullGrids(size)
    /\ AB = None
    /\ AW = None
    /\ handicap = 0
    /\ moves = <<>>
    /\ text = <<>>
    /\ tree = None
    /\ last = [op |-> "init", err |-> "none", ret |-> None]

Top == calls[Len(calls)]

Below == SubSeq(calls, 1, Len(calls) - 1)

\* The locals of _group_and_liberties(start) when its while loop is reached
\* (board.py:220-229); for an empty start cell the call returns two empty
\* sets at once (board.py:221-222), which is the frame with nothing to pop.
NewFill(b, start) ==
    IF b[start] = None
    THEN [fn |-> "group_and_liberties", start |-> start, color |-> None,
          stack |-> <<>>, visited |-> {}, group |-> {}, liberties |-> {},
          pushed |-> <<>>, pops |-> 0]
    ELSE [fn |-> "group_and_liberties", start |-> start,
          color |-> LowerChar(Stone(b[start]).color),
          stack |-> <<start>>, visited |-> {start}, group |-> {}, liberties |-> {},
          pushed |-> <<start>>, pops |-> 0]

\* The locals of update_board() when its scan begins (board.py:259-265).
NewScan(sz) ==
    [fn |-> "update_board", order |-> ScanOrder(sz), visited |-> {},
     to_remove |-> {}, evaluated |-> <<>>]

\* The iterations a call of _group_and_liberties is followed for.
StepCap(sz) == 2 * sz[1] * sz[2]

\* game.board._group_and_liberties(start) is called.
CallFill(start) ==
    /\ calls = <<>>
    /\ calls' = <<NewFill(board, start)>>
    /\ last' = [op |-> "group_and_liberties", err |-> "running", ret |-> None,
                start |-> start]
    /\ UNCHANGED <<ruleset, size, komi, handicap, AB, AW, moves, board, text, tree>>

\* One iteration of the while loop (board.py:231-240): pop a cell, add it
\* to the group, visit its neighbours.
FillStep ==
    /\ calls /= <<>>
    /\ Top.fn = "group_and_liberties"
    /\ Top.stack /= <<>>
    /\ Top.pops < StepCap(size)
    /\ LET f    == Top
           p    == f.stack[Len(f.stack)]
           rest == SubSeq(f.stack, 1, Len(f.stack) - 1)
           st   == VisitNeighbors(board, f.color, neighbors(p, size),
                                  [stack |-> rest, visited |-> f.visited,
                                   liberties |-> f.liberties])
       IN  calls' = Below \o
                    <<[f EXCEPT !.stack = st.stack,
                                !.visited = st.visited,
                                !.liberties = st.liberties,
                                !.group = @ \cup {p},
                                !.pushed = @ \o SubSeq(st.stack, Len(rest) + 1,
                                                       Len(st.stack)),
                                !.pops = @ + 1]>>
    /\ UNCHANGED <<ruleset, size, komi, handicap, AB, AW, moves, board, text, tree,
                   last>>

\* The stack is empty: the call made from outside returns (board.py:242).
FillReturn ==
    /\ Len(calls) = 1
    /\ Top.fn = "group_and_liberties"
    /\ Top.stack = <<>>
    /\ calls' = <<>>
    /\ last' = [op |-> "group_and_liberties", err |-> "none",
                ret |-> [group |-> Top.group, liberties |-> Top.liberties],
                start |-> Top.start, pushed |-> Top.pushed, pops |-> Top.pops]
    /\ UNCHANGED <<ruleset, size, komi, handicap, AB, AW, moves, board, text, tree>>

\* game.board.update_board() is called.
CallUpdate ==
    /\ calls = <<>>
    /\ calls' = <<NewScan(size)>>
    /\ last' = [op |-> "update_board", err |-> "running", ret |-> None]
    /\ UNCHANGED <<ruleset, size, komi, handicap, AB, AW, moves, board, text, tree>>

\* One cell of the scan (board.py:265-271): an empty cell and a cell of a
\* group already evaluated are passed over; for any other cell
\* _group_and_liberties is called.
ScanStep ==
    /\ calls /= <<>>
    /\ Top.fn = "update_board"
    /\ Top.order /= <<>>
    /\ LET p == Head(Top.order)
       IN  calls' = IF board[p] = None \/ p \in Top.visited
                    THEN Below \o <<[Top EXCEPT !.order = Tail(@)]>>
                    ELSE calls \o <<NewFill(board, p)>>
    /\ UNCHANGED <<ruleset, size, komi, handicap, AB, AW, moves, board, text, tree,
                   last>>

\* The call made by the scan returns: the group is marked visited, and
\* scheduled if it has no liberty (board.py:271-275); the scan moves on.
ScanResume ==
    /\ Len(calls) = 2
    /\ Top.fn = "group_and_liberties"
    /\ Top.stack = <<>>
    /\ LET f == Top
           u == calls[1]
       IN  calls' = <<[u EXCEPT !.order = Tail(@),
                                !.visited = @ \cup f.group,
                                !.to_remove = IF Cardinality(f.liberties) = 0
                                              THEN @ \cup f.group ELSE @,
                                !.evaluated = Append(@, f.group)]>>
    /\ UNCHANGED <<ruleset, size, komi, handicap, AB, AW, moves, board, text, tree,
                   last>>

\* The scan is over: the scheduled cells are cleared and the sorted list is
\* returned (board.py:278-282).
UpdateReturn ==
    /\ Len(calls) = 1
    /\ Top.fn = "update_board"
    /\ Top.order = <<>>
    /\ board' = [p \in DOMAIN board |-> IF p \in Top.to_remove THEN None ELSE board[p]]
    /\ calls' = <<>>
    /\ last' = [op |-> "update_board", err |-> "none",
                ret |-> SortedPos(Top.to_remove), evaluated |-> Top.evaluated]
    /\ UNCHANGED <<ruleset, size, komi, handicap, AB, AW, moves, text, tree>>

\* What a call in progress does next.
Running == FillStep \/ FillReturn \/ ScanStep \/ ScanResume \/ UpdateReturn

NextSteps ==
    \/ \E start \in Cells(size) : CallFill(start)
    \/ CallUpdate
    \/ FillStep
    \/ FillReturn
    \/ ScanStep
    \/ ScanResume
    \/ UpdateReturn

\* The interpreter runs a call that has begun until it returns: the loops
\* wait for nothing.  Whether a call is made at all is up to the caller.
SpecSteps == InitSteps /\ [][NextSteps]_vars /\ WF_vars(Running)

-----------------------------------------------------------------------------
(* The rules of Go the claims are stated in, defined on a grid without the *)
(* code: groups by closure under adjacency, liberties, dead groups.        *)

Abs(n) == IF n < 0 THEN -n ELSE n

Adjacent(p, q) == Abs(p[1] - q[1]) + Abs(p[2] - q[2]) = 1

IsBlack(color) == color \in {"B", "b"}

SameSide(b, p, q) == IsBlack(Stone(b[p]).color) = IsBlack(Stone(b[q]).color)

RECURSIVE Closure(_, _)
Closure(b, S) ==
    LET N == {q \in DOMAIN b \ S :
                b[q] /= None /\ \E p \in S : Adjacent(p, q) /\ SameSide(b, p, q)}
    IN  IF N = {} THEN S ELSE Closure(b, S \cup N)

GroupAt(b, p) == Closure(b, {p})

LibertiesAt(b, G) == {q \in DOMAIN b : b[q] = None /\ \E p \in G : Adjacent(p, q)}

\* The occupied cells whose group has no liberty.
DeadCells(b) == {p \in DOMAIN b : b[p] /= None /\ LibertiesAt(b, GroupAt(b, p)) = {}}

\* Capture resolution: every group without a liberty is cleared.
Resolve(b) == [p \in DOMAIN b |-> IF p \in DeadCells(b) THEN None ELSE b[p]]

Occupied(b) == {p \in DOMAIN b : b[p] /= None}

LastMove(ms) == ms[Len(ms)]

-----------------------------------------------------------------------------
(* C1, C2 : capture resolution after a placement *)

\* C1: after any sequence of successful placements, every occupied cell
\* belongs to a group with at least one liberty: no group with zero
\* liberties is on the grid between operations.
C1_NoDeadGroup == DeadCells(board) = {}

\* C2: Board.add_move(m) resolves captures before it returns: every cell of
\* a group that has no liberty on the grid with m placed (an opposing group
\* or m's own) is empty in the grid add_move leaves.
C2_AddMoveResolves ==
    \A m \in MoveInputs(size, moves) :
        LET r == add_move(board, size, m)
        IN  r.err = "none" =>
              \A p \in DeadCells(SetCell(board, m.pos, m)) : r.board[p] = None

-----------------------------------------------------------------------------
(* C3 : the board is the replay of the game *)

RECURSIVE ReplayStones(_, _)
ReplayStones(b, ms) ==
    IF ms = <<>> THEN b
    ELSE IF Head(ms).pos = None THEN ReplayStones(b, Tail(ms))
    ELSE ReplayStones(Resolve(SetCell(b, Head(ms).pos, Head(ms))), Tail(ms))

SetupMoves(color, prop) ==
    IF prop = None THEN <<>>
    ELSE [i \in 1..Len(prop[1]) |-> NewMove(color, sgf_to_coord(prop[1][i]).pos)]

\* The replay from the empty grid: the AB stones, the AW stones, then each
\* non-pass move of the list, captures resolved after each placement.
Replay ==
    ReplayStones(EmptyGrid(size),
                 SetupMoves("B", AB) \o SetupMoves("W", AW) \o moves)

\* C3: after construction and any sequence of Game.play calls, game.board
\* equals the replay of the setup stones and of game.moves from the empty
\* grid, captures resolved after each placement.
C3_BoardIsReplay == board = Replay

-----------------------------------------------------------------------------
(* C4 : play and add_move are all-or-nothing *)

\* The position a well-formed GTP move "<c> <col><row>" names.
GtpTarget(col, row, sz) ==
    LET x == CHOOSE i \in 0..24 : VALID_COLUMN_GTP[i + 1] = col
        n == CHOOSE i \in 0..9 : Digits[i + 1] = row[1]
    IN  <<x, sz[2] - n>>

Playable(pos, b, sz) == pos \in Cells(sz) /\ b[pos] = None

\* C4: a Game.play or a Board.add_move whose target is off the board or
\* occupied fails with an error and leaves the grid and game.moves as they
\* were.
C4_AllOrNothing ==
    /\ \A c \in {"b", "w"}, col \in GtpColumns, row \in GtpRows :
          LET r == play(<<c, " ", col>> \o row, moves, handicap, board, size)
          IN  ~Playable(GtpTarget(col, row, size), board, size) =>
                r.err \in ValueErrors /\ r.moves = moves /\ r.board = board
    /\ \A m \in MoveInputs(size, moves) :
          LET r == add_move(board, size, m)
          IN  (m.pos /= None /\ ~Playable(m.pos, board, size)) =>
                r.err \in ValueErrors /\ r.board = board

\* A play on an occupied or off-board point has just failed, in a game with
\* a move played and a stone on the grid.
C4_Witness ==
    /\ last.op = "play"
    /\ last.err = "ValueError: Invalid position"
    /\ moves /= <<>>
    /\ Occupied(board) /= {}

-----------------------------------------------------------------------------
(* C5, C6 : whose turn it is *)

Opposite(color) == IF color = "B" THEN "W" ELSE "B"

Appended == Len(moves') = Len(moves) + 1

\* C5 as stated: with handicap < 2, next_color() is Black before any move,
\* and after each move appended by Game.play it is the colour opposite to
\* the one it returned before that move.
C5_StrictAlternation ==
    [][(handicap < 2 /\ Appended) =>
         next_color(moves', handicap) = Opposite(next_color(moves, handicap))]_vars

StartsBlack == (handicap < 2 /\ moves = <<>>) => next_color(moves, handicap) = "B"

\* C5 as amended: with handicap < 2, next_color() is Black before any move;
\* after each move appended by Game.play it is the colour opposite to that
\* move's colour, so it alternates whenever the move was played by the
\* colour next_color() returned before it.
C5_AlternatesWithMover ==
    /\ []StartsBlack
    /\ [][(handicap < 2 /\ Appended) =>
            /\ next_color(moves', handicap)
                 = Opposite(UpperChar(LastMove(moves').color))
            /\ (UpperChar(LastMove(moves').color) = next_color(moves, handicap)
                  => next_color(moves', handicap)
                       = Opposite(next_color(moves, handicap)))]_vars

\* Two moves were played in turn, Black then White, the second one a pass.
C5_Witness ==
    /\ handicap < 2
    /\ Len(moves) = 2
    /\ moves[1].color = "b"
    /\ moves[2].color = "w"
    /\ moves[2].pos = None
    /\ last.op = "play"

\* The colour the turn-colour rule gives.
TurnColour(ms, ha) ==
    IF ms = <<>> THEN (IF ha \in {0, 1} THEN "B" ELSE "W")
    ELSE IF IsBlack(LastMove(ms).color) THEN "W" ELSE "B"

\* C6: next_color() returns Black with no move and handicap 0 or 1, White
\* with no move and handicap >= 2, and otherwise the colour opposite to the
\* last move's, in whichever letter case that colour is stored.
C6_TurnColourRule ==
    last.op = "next_color" => last.ret = TurnColour(moves, handicap)

\* next_color() has answered White after a last move stored as "B", and
\* has answered for a handicap of 1 with no move.
C6_Witness ==
    /\ last.op = "next_color"
    /\ moves /= <<>>
    /\ LastMove(moves).color = "B"
    /\ last.ret = "W"

-----------------------------------------------------------------------------
(* C7, C8, C9 : the move list under Game.play *)

\* C7: the i-th element of game.moves (from 0) has turn = i.
C7_TurnIsIndex == \A i \in 1..Len(moves) : moves[i].turn = <<i - 1>>

\* Two moves are recorded and a play has just failed.
C7_Witness ==
    /\ Len(moves) >= 2
    /\ last.op = "play"
    /\ last.err /= "none"

\* C8: game.moves is append-only: a step leaves it unchanged or adds one
\* move at its end, a successful play adds one and a failed play none.
C8_AppendOnly ==
    [][/\ \/ moves' = moves
          \/ Appended /\ SubSeq(moves', 1, Len(moves)) = moves
       /\ last'.op = "play" => (Appended <=> last'.err = "none")]_vars

\* A move was played after the stone of the first move was taken off the
\* grid: the first move is still in the list.
C8_Witness ==
    /\ Len(moves) >= 2
    /\ moves[1].pos /= None
    /\ board[moves[1].pos] = None
    /\ last.op = "play"
    /\ last.err = "none"

\* C9: Game.play of "<color> pass" appends exactly one move, without a
\* position, and leaves every cell of the board as it was.
C9_PassLeavesBoard ==
    \A c \in {"b", "w", "B", "W"} :
        LET r == play(<<c, " ">> \o PASS, moves, handicap, board, size)
        IN  /\ r.err = "none"
            /\ r.board = board
            /\ Len(r.moves) = Len(moves) + 1
            /\ SubSeq(r.moves, 1, Len(moves)) = moves
            /\ LastMove(r.moves).pos = None
            /\ LastMove(r.moves).color = LowerChar(c)

\* A pass has just been played on a grid that holds a stone.
C9_Witness ==
    /\ last.op = "play"
    /\ last.err = "none"
    /\ moves /= <<>>
    /\ LastMove(moves).pos = None
    /\ Occupied(board) /= {}

-----------------------------------------------------------------------------
(* C10 : setting stones up registers no move *)

\* The stones at the positions ps are of the given colour and carry no turn.
SetUpAt(b, color, ps) ==
    \A i \in 1..Len(ps) :
        /\ b[ps[i]] /= None
        /\ Stone(b[ps[i]]).color = color
        /\ Stone(b[ps[i]]).pos = ps[i]
        /\ Stone(b[ps[i]]).turn = None

SetupPositions(prop) ==
    IF prop = None THEN <<>>
    ELSE [i \in 1..Len(prop[1]) |-> sgf_to_coord(prop[1][i]).pos]

PlacePositions(arg) == IF arg.kind = "tuple" THEN <<arg.val>> ELSE arg.val

\* What Game.place and the constructor's setup leave on the grid.
PlacesStones ==
    /\ \A in \in PlaceInputs(size) :
          LET r == place(in.color, in.arg, moves, handicap, board, size)
          IN  (in.color \in ValidColors /\ in.arg.kind /= "other" /\ r.err = "none")
                => SetUpAt(r.board, in.color, PlacePositions(in.arg))
    /\ last.op = "init" =>
          /\ moves = <<>>
          /\ SetUpAt(board, "B", SetupPositions(AB))
          /\ SetUpAt(board, "W", SetupPositions(AW))

\* C10: Game.place and the constructor's AB/AW setup put stones of the
\* given colour at the given coordinates, append nothing to game.moves and
\* consume no turn index.
C10_PlaceRegistersNoMove ==
    /\ []PlacesStones
    /\ [][last'.op = "place" => moves' = moves]_vars

\* A stone has just been set up in a game with a move played.
C10_Witness ==
    /\ last.op = "place"
    /\ last.err = "none"
    /\ moves /= <<>>
    /\ \E p \in Occupied(board) : Stone(board[p]).turn = None

-----------------------------------------------------------------------------
(* C11 : remove_move checks what the cell holds *)

\* The cell at the move's position holds that very move.
Holds(b, move) ==
    /\ move.pos \in DOMAIN b
    /\ b[move.pos] = <<move>>

\* C11: Board.remove_move(m) fails with a ValueError and leaves the grid as
\* it was whenever the cell at m's position does not hold m (it is empty or
\* holds another move); it clears the cell only when the cell holds m.
C11_RemoveChecksContent ==
    \A m \in MoveInputs(size, moves) :
        LET r == remove_move(board, size, m)
        IN  IF m.pos /= None /\ Holds(board, m)
            THEN r.err = "none" /\ r.board = [board EXCEPT ![m.pos] = None]
            ELSE r.err \in ValueErrors /\ r.board = board

-----------------------------------------------------------------------------
(* C12 : parse after serialize gives the tree back *)

\* C12: for every tree t that parse returns, parse("(" + serialize(t) + ")")
\* is structurally equal to t: same property maps, same children in the
\* same order at every level.
C12_RoundTrip ==
    (last.op = "parse" /\ last.err = "none") =>
        LET r == parse(<<"(">> \o serialize(tree) \o <<")">>)
        IN  r.err = "none" /\ TreeEq(r.tree, tree)

-----------------------------------------------------------------------------
(* C13, C14 : property values through serialize and parse *)

\* The values of a node, all properties together.
ValuesOf(t) ==
    UNION { {t.properties[i][2][j] : j \in 1..Len(t.properties[i][2])} :
            i \in 1..Len(t.properties) }

HasChar(v, c) == \E i \in 1..Len(v) : v[i] = c

\* C13: a node whose values contain backslashes or closing brackets, among
\* ordinary characters and spaces, is parsed back from its serialization
\* with exactly these values.
C13_EscapeRoundTrip ==
    (/\ tree /= None
     /\ tree.children = <<>>
     /\ \E v \in ValuesOf(tree) : HasChar(v, "\\") \/ HasChar(v, "]"))
    => LET r == parse(<<"(">> \o serialize(tree) \o <<")">>)
       IN  r.err = "none" /\ r.tree.properties = tree.properties

\* The value a bracketed text stands for: "\\" is a backslash, "\]" a
\* closing bracket, a backslash before a newline is elided with it, a tab is
\* one space, every other character (a space too) is copied.
RECURSIVE Decoded(_)
Decoded(raw) ==
    IF raw = <<>> THEN <<>>
    ELSE IF Len(raw) >= 2 /\ raw[1] = "\\" /\ raw[2] \in {"\\", "]"}
    THEN <<raw[2]>> \o Decoded(SubSeq(raw, 3, Len(raw)))
    ELSE IF Len(raw) >= 2 /\ raw[1] = "\\" /\ raw[2] = "\n"
    THEN Decoded(SubSeq(raw, 3, Len(raw)))
    ELSE IF raw[1] = "\t" THEN <<" ">> \o Decoded(Tail(raw))
    ELSE <<raw[1]>> \o Decoded(Tail(raw))

\* C14: parse drops whitespace outside the values only: the text
\* "(;C[<raw>])" is parsed to a node whose value is raw with its spaces
\* copied, each tab turned into a space, each backslash-newline elided and
\* every other character unchanged; whitespace between tokens changes
\* nothing.
C14_WhitespaceInValues ==
    /\ \A raw \in RawValues :
          (last.op = "parse" /\ text = ValueText(raw)) =>
             /\ last.err = "none"
             /\ tree = Leaf(<<"C">>, Decoded(raw))
    /\ (last.op = "parse"
        /\ text = <<"(", " ", ";", "\n", "C", "[", "a", "]", "\t", ")", "\n">>)
          => tree = Leaf(<<"C">>, <<"a">>)

-----------------------------------------------------------------------------
(* C15 : malformed SGF *)

CountChar(t, c) == Cardinality({i \in 1..Len(t) : t[i] = c})

\* Texts with a lowercase character in a property key.
LowercaseKeyTexts ==
    { <<"(", ";", "c", "[", "a", "]", ")">>,
      <<"(", ";", "C", "c", "[", "a", "]", ")">> }

\* Texts with a property key that no "[" follows.
NoDelimiterTexts ==
    { <<"(", ";", "C", ")">>,
      <<"(", ";", "C", "1", "[", "a", "]", ")">>,
      <<"(", ";", "C", "[", "a", "]", "B", ";", "A", "[", "a", "]", ")">> }

\* Texts with a subtree that has no node.
EmptySubtreeTexts ==
    { <<"(", ")">>,
      <<"(", ";", "C", "[", "a", "]", "(", ")", ")">> }

\* The malformed texts the claim lists (no text of the model has a
\* parenthesis inside a value).
Malformed(t) ==
    \/ t = <<>> \/ t[1] /= "("
    \/ t \in LowercaseKeyTexts
    \/ t \in NoDelimiterTexts
    \/ t \in EmptySubtreeTexts
    \/ CountChar(t, "(") > CountChar(t, ")")

\* C15: parse of a malformed text raises ValueError and returns no tree.
C15_MalformedRejected ==
    (last.op = "parse" /\ Malformed(text)) =>
        last.err \in ValueErrors /\ last.ret = None

-----------------------------------------------------------------------------
(* C16 : the shape of serialize's output *)

RECURSIVE Flatten(_)
Flatten(seqs) == IF seqs = <<>> THEN <<>> ELSE Head(seqs) \o Flatten(Tail(seqs))

\* A value as it is written between brackets.
Written(v) ==
    Flatten([i \in 1..Len(v) |->
               IF v[i] \in {"\\", "]"} THEN <<"\\", v[i]>> ELSE <<v[i]>>])

\* KEY[v1][v2]...
PropertyText(item) ==
    item[1] \o Flatten([j \in 1..Len(item[2]) |-> <<"[">> \o Written(item[2][j]) \o <<"]">>])

\* ";" and the properties in insertion order, then nothing, the sole child
\* without parentheses, or one parenthesized block per child.
RECURSIVE ExpectedSgf(_)
ExpectedSgf(t) ==
    LET n   == Len(t.children)
        own == <<";">> \o Flatten([i \in 1..Len(t.properties) |->
                                      PropertyText(t.properties[i])])
    IN  IF n = 0 THEN own
        ELSE IF n = 1 THEN own \o ExpectedSgf(t.children[1])
        ELSE own \o Flatten([i \in 1..n |->
                               <<"(">> \o ExpectedSgf(t.children[i]) \o <<")">>])

\* C16: serialize(t) is ";" followed by each property as KEY[v1][v2]... in
\* insertion order, then nothing (no child), the serialization of the sole
\* child without parentheses, or one parenthesized block per child in child
\* order; only to_sgf adds the parentheses around the whole tree.
C16_SerializeShape ==
    /\ tree /= None =>
          /\ serialize(tree) = ExpectedSgf(tree)
          /\ to_sgf(tree) = <<"(">> \o ExpectedSgf(tree) \o <<")">>
    /\ last.op = "serialize" => last.ret = ExpectedSgf(tree)
    /\ last.op = "to_sgf" => text = <<"(">> \o ExpectedSgf(tree) \o <<")">>

\* serialize has answered for a tree with two children, the first of which
\* has a sole child.
C16_Witness ==
    /\ last.op = "serialize"
    /\ Len(tree.children) = 2
    /\ Len(tree.children[1].children) = 1
    /\ last.ret = <<";", "C", "[", "r", "]",
                    "(", ";", "B", "[", "a", "a", "]", ";", "W", "[", "b", "b", "]", ")",
                    "(", ";", "W", "[", "c", "c", "]", ")">>

-----------------------------------------------------------------------------
(* C17, C18 : GTP strings and positions *)

SameColour(c, d) == LowerChar(c) = LowerChar(d)

\* C17: for every board size and every move m of a valid colour with a
\* position on the board or a pass, Move.from_gtp(game, m.to_gtp()) is a
\* move of the same colour at the same position.
C17_GtpRoundTrip ==
    (last.op = "Move" /\ last.err = "none") =>
        LET g == to_gtp(last.ret, size)
            r == from_gtp(g.ret, moves, handicap, board, size)
        IN  /\ g.err = "none"
            /\ r.err = "none"
            /\ SameColour(r.move.color, last.ret.color)
            /\ r.move.pos = last.ret.pos

\* The index of a letter in the alphabet A..Z without I.
GtpColumnIndex(col) ==
    LET n == CHOOSE i \in 1..26 : UpperLetters[i] = UpperChar(col)
    IN  IF n < 9 THEN n - 1 ELSE n - 2

\* C18: on a board of size (w, h), from_gtp decodes "<color> <col><row>"
\* with a column on the board and 1 <= row <= h to the position
\* (index of col, h - row), and rejects every other row.
C18_DecodesRows ==
    \A c \in {"b", "W"}, col \in GtpTextColumns \ {"I"}, row \in GtpTextRows(size) :
        (/\ last.op = "from_gtp"
         /\ text = GtpText(c, col, row)
         /\ GtpColumnIndex(col) < size[1])
        => IF 1 <= row /\ row <= size[2]
           THEN /\ last.err = "none"
                /\ last.ret.pos = <<GtpColumnIndex(col), size[2] - row>>
           ELSE last.err \in ValueErrors

-----------------------------------------------------------------------------
(* C19 : SGF coordinates to GTP *)

SgfIndex(ch) == (CHOOSE i \in 1..26 : LowerLetters[i] = ch) - 1

\* The letter at index x of the alphabet A..Z without I.
GtpLetter(x) == IF x < 8 THEN UpperLetters[x + 1] ELSE UpperLetters[x + 2]

\* A decimal numeral of n: an optional minus sign, then digits without a
\* leading zero.
IsDecimalOf(str, n) ==
    /\ ParseInt(str) = <<n>>
    /\ str[1] /= "+"
    /\ Len(str) > 1 => str[1] /= "0"

\* C19: sgf_to_gtp(s, (w, h)) is "pass" for the empty string, and for two
\* letters that stand for (x, y) with x < 25 it is the letter at index x of
\* the GTP alphabet followed by the decimal number h - y; "aa" on 19x19 is
\* "A19".
C19_SgfToGtp ==
    last.op = "sgf_to_gtp" =>
        /\ text = <<>> => last.err = "none" /\ last.ret = PASS
        /\ \A p \in SgfLetters, q \in SgfLetters :
              (text = <<p, q>> /\ SgfIndex(p) < 25) =>
                 /\ last.err = "none"
                 /\ last.ret[1] = GtpLetter(SgfIndex(p))
                 /\ IsDecimalOf(Tail(last.ret), size[2] - SgfIndex(q))
        /\ (size = <<19, 19>> /\ text = <<"a", "a">>)
              => last.ret = <<"A", "1", "9">>

\* sgf_to_gtp has answered "J13" for "ia" on the board 9 wide and 13 high.
C19_Witness ==
    /\ last.op = "sgf_to_gtp"
    /\ size = <<9, 13>>
    /\ text = <<"i", "a">>
    /\ last.ret = <<"J", "1", "3">>

-----------------------------------------------------------------------------
(* C20 : malformed GTP *)

\* The malformed tokens: not exactly two fields around one space, a colour
\* that is not b or w, and for a position that is not "pass": no column, a
\* column letter outside the alphabet, a row that is empty or is no number,
\* a row outside 1..height.
MalformedGtp(t, sz) ==
    \/ CountChar(t, " ") /= 1
    \/ LET i      == CHOOSE k \in 1..Len(t) : t[k] = " "
           colour == SubSeq(t, 1, i - 1)
           posn   == SubSeq(t, i + 1, Len(t))
       IN  \/ colour \notin {<<"b">>, <<"w">>, <<"B">>, <<"W">>}
           \/ /\ posn /= PASS
              /\ \/ posn = <<>>
                 \/ ~IsUpperChar(UpperChar(posn[1]))
                 \/ UpperChar(posn[1]) = "I"
                 \/ ParseInt(Tail(posn)) = None
                 \/ ParseInt(Tail(posn))[1] \notin 1..sz[2]

\* C20: from_gtp of a malformed token raises ValueError and builds no Move.
C20_MalformedGtpRejected ==
    (last.op = "from_gtp" /\ MalformedGtp(text, size)) =>
        last.err \in ValueErrors /\ last.ret = None

-----------------------------------------------------------------------------
(* C21, C22 : a game as a tree and back *)

\* The node i levels below t along first children: <<>> when the line ends
\* earlier, else <<node>>.
RECURSIVE Descend(_, _)
Descend(t, i) ==
    IF i = 0 THEN <<t>>
    ELSE IF t.children = <<>> THEN None
    ELSE Descend(t.children[1], i - 1)

\* The SGF property of a move: the colour as key, the two letters of the
\* position (column, then row counted from the top) as the only value.
MoveProperty(move) ==
    <<(<<UpperChar(move.color)>>),
      <<(<<LowerLetters[move.pos[1] + 1], LowerLetters[move.pos[2] + 1]>>)>>>>

\* Node i below the root carries the property of ms[i] and nothing else; a
\* pass is carried under its colour key.
CarriesMove(node, move) ==
    /\ Len(node.properties) = 1
    /\ IF move.pos = None THEN node.properties[1][1] = <<UpperChar(move.color)>>
       ELSE node.properties[1] = MoveProperty(move)

\* t is a root followed by a linear chain of one node per move of ms.
IsChainOf(t, ms) ==
    /\ \A i \in 0..Len(ms) :
          /\ Descend(t, i) /= None
          /\ Len(Descend(t, i)[1].children) = (IF i < Len(ms) THEN 1 ELSE 0)
    /\ \A i \in 1..Len(ms) : CarriesMove(Descend(t, i)[1], ms[i])

\* C21: for every game reached by Game.play calls, passes included,
\* to_sgftree returns a root followed by a strictly linear chain of
\* len(moves) nodes, the i-th carrying only the SGF property of moves[i].
C21_LinearChain ==
    last.op = "to_sgftree" => last.err = "none" /\ IsChainOf(last.ret, moves)

\* The game g has the metadata, the setup and the (colour, position)
\* sequence of the game in the state.
SameGame(g) ==
    /\ g.ruleset = ruleset /\ g.size = size /\ g.komi = komi
    /\ g.handicap = handicap /\ g.AB = AB /\ g.AW = AW
    /\ Len(g.moves) = Len(moves)
    /\ \A i \in 1..Len(moves) :
          g.moves[i].color = moves[i].color /\ g.moves[i].pos = moves[i].pos

\* C22: for every game g reached by Game.play calls, to_sgftree succeeds,
\* from_sgftree of its tree succeeds and yields a game with g's ruleset,
\* size, komi, handicap, setup and move sequence.
C22_GameTreeGame ==
    /\ last.op = "to_sgftree" => last.err = "none"
    /\ last.op = "from_sgftree" => last.err = "none" /\ SameGame(last.ret)

-----------------------------------------------------------------------------
(* C23 : the move sequence of a tree *)

\* The main line from t: t, its first child, that child's first child, ...
RECURSIVE MainLine(_)
MainLine(t) ==
    <<t>> \o (IF t.children = <<>> THEN <<>> ELSE MainLine(t.children[1]))

\* The SGF coordinate a node carries under key: <<>> or <<coordinate>>.
Carried(node, key) ==
    IF \E i \in 1..Len(node.properties) : node.properties[i][1] = key
    THEN <<(CHOOSE pr \in {node.properties[i] : i \in 1..Len(node.properties)} :
               pr[1] = key)[2][1]>>
    ELSE None

\* What one node contributes: nothing, or one move, Black before White.
Contribution(node, sz, insert_tuple) ==
    LET b == Carried(node, <<"B">>)
        w == Carried(node, <<"W">>)
        entry(c, v) == IF insert_tuple THEN <<(<<c>>), sgf_to_gtp(v, sz).ret>>
                       ELSE <<c, " ">> \o sgf_to_gtp(v, sz).ret
    IN  IF b /= None THEN <<entry("B", b[1])>>
        ELSE IF w /= None THEN <<entry("W", w[1])>>
        ELSE <<>>

MainLineMoves(t, sz, insert_tuple) ==
    Flatten([i \in 1..Len(MainLine(t)) |->
                Contribution(MainLine(t)[i], sz, insert_tuple)])

\* C23: move_sequence returns the moves of the main line only, from the
\* node it is called on along first children, in that order, at most one
\* per node, Black before White, nothing for a node without a move; it
\* succeeds when the board size is handed in or stands in the node.
C23_MainLineOnly ==
    last.op = "move_sequence" =>
        /\ (last.board_size /= None \/ DictGet(tree.properties, <<"S", "Z">>) /= None)
              => last.err = "none"
        /\ last.err = "none"
              => last.ret = MainLineMoves(tree, size, last.insert_tuple)

\* move_sequence has run on a tree with a side variation at the root and
\* below it, whose main line holds a node with both colours and a pass.
C23_Witness ==
    /\ last.op = "move_sequence" /\ last.err = "none"
    /\ size = <<9, 13>>
    /\ ~last.insert_tuple
    /\ Len(tree.children) = 2
    /\ Len(tree.children[1].children) = 2
    /\ Carried(tree.children[1], <<"B">>) /= None
    /\ Carried(tree.children[1], <<"W">>) /= None
    /\ tree.children[1].properties[1][1] = <<"W">>
    /\ last.ret = << <<"B", " ", "B", "1", "2">>, <<"B", " ", "A", "1", "2">>,
                     <<"B", " ", "p", "a", "s", "s">> >>

-----------------------------------------------------------------------------
(* C24 : sub-boards *)

Min(a, b) == IF a <= b THEN a ELSE b

\* The rectangle spanned by two corners: its origin and its size.
Origin(c1, c2) == <<Min(c1[1], c2[1]), Min(c1[2], c2[2])>>

Span(c1, c2) == <<Abs(c1[1] - c2[1]) + 1, Abs(c1[2] - c2[2]) + 1>>

\* The cell q of the sub-board holds the move of ms that stands at q moved
\* by the origin, and is empty when there is none.
Rebased(ms, origin, q) ==
    LET at == {i \in 1..Len(ms) :
                 ms[i].pos = <<q[1] + origin[1], q[2] + origin[2]>>}
    IN  IF at = {} THEN None ELSE <<ms[CHOOSE i \in at : TRUE]>>

\* C24: sub_board(c1, c2) returns a Board of the size of the rectangle the
\* corners span, holding exactly the moves inside it, each at its
\* coordinate minus the rectangle's minimum corner.
C24_SubBoard ==
    last.op = "sub_board" =>
        /\ last.err = "none"
        /\ last.ret.size = Span(last.corner1, last.corner2)
        /\ last.ret.board =
              [q \in Cells(Span(last.corner1, last.corner2)) |->
                  Rebased(moves, Origin(last.corner1, last.corner2), q)]

-----------------------------------------------------------------------------
(* C25 : rebuilding the grid from the move list *)

\* The grid reached from the empty one by adding the moves one at a time
\* with add_move, captures resolved after each: [err, board].
RECURSIVE Incremental(_, _, _)
Incremental(b, sz, ms) ==
    IF ms = <<>> THEN [err |-> "none", board |-> b]
    ELSE LET r == add_move(b, sz, Head(ms))
         IN  IF r.err /= "none" THEN r
             ELSE Incremental(update_board(r.board, sz).board, sz, Tail(ms))

NoSetup == (AB = None \/ AB[1] = <<>>) /\ (AW = None \/ AW[1] = <<>>)

NoPass(ms) == \A i \in 1..Len(ms) : ms[i].pos /= None

\* C25: for a move list that can be played one move at a time, captures
\* resolved, board_from_moves builds the grid that placing the moves one at
\* a time reaches.
C25_RebuildAgrees ==
    (/\ last.op = "board_from_moves"
     /\ NoSetup /\ NoPass(moves)
     /\ Incremental(EmptyGrid(size), size, moves).err = "none")
    => /\ last.err = "none"
       /\ last.ret = Incremental(EmptyGrid(size), size, moves).board

-----------------------------------------------------------------------------
(* C26, C27 : update_board on any grid *)

\* C26: after update_board has returned, on any grid, no stone left belongs
\* to a group without a liberty, and a second call made right away removes
\* nothing and returns the empty list.
C26_NothingLeftToCapture ==
    last.op = "update_board" =>
        /\ DeadCells(board) = {}
        /\ update_board(board, size) = [board |-> board, removed |-> <<>>]

\* update_board has removed stones and left others standing on a 3x3 grid.
C26_Witness ==
    /\ last.op = "update_board"
    /\ size = <<3, 3>>
    /\ last.ret /= <<>>
    /\ Occupied(board) /= {}

\* The sequence lists the cells of S once each, in increasing order (by x,
\* then by y).
IsSortedListOf(seq, S) ==
    /\ Len(seq) = Cardinality(S)
    /\ {seq[i] : i \in 1..Len(seq)} = S
    /\ \A i \in 1..Len(seq), j \in 1..Len(seq) :
          i < j => \/ seq[i][1] < seq[j][1]
                   \/ seq[i][1] = seq[j][1] /\ seq[i][2] < seq[j][2]

Reverse(seq) == [i \in 1..Len(seq) |-> seq[Len(seq) + 1 - i]]

\* The cells by columns: for x, for y.
ColumnOrder(sz) ==
    [i \in 1..(sz[1] * sz[2]) |-> <<(i - 1) \div sz[2], (i - 1) % sz[2]>>]

\* What the scan of update_board schedules when it visits the cells in the
\* given order.
Scheduled(b, sz, order) ==
    ScanGroups(b, sz, order, [visited |-> {}, to_remove |-> {}]).to_remove

\* C27: update_board clears exactly the groups without a liberty on the
\* grid as it stood when the call began, in whatever order the groups are
\* scanned; every other cell is unchanged, and the list returned is the set
\* of cleared cells in sorted order.
C27_SweepAfterScan ==
    [][last'.op = "update_board" =>
          /\ board' = Resolve(board)
          /\ IsSortedListOf(last'.ret, DeadCells(board))
          /\ Scheduled(board, size, Reverse(ScanOrder(size))) = DeadCells(board)
          /\ Scheduled(board, size, ColumnOrder(size)) = DeadCells(board)]_vars

\* update_board has cleared a 3x2 grid that was full: every stone of it,
\* those that another group's capture would have freed included.
C27_Witness ==
    /\ last.op = "update_board"
    /\ size = <<3, 2>>
    /\ Len(last.ret) = 6
    /\ Occupied(board) = {}

-----------------------------------------------------------------------------
(* C28 : groups and liberties *)

\* What _group_and_liberties(start) has returned is the group of the start
\* stone and its liberties, or two empty sets for an empty start cell.
ReturnsGroup ==
    last.op = "group_and_liberties" =>
        IF board[last.start] = None
        THEN last.ret = [group |-> {}, liberties |-> {}]
        ELSE /\ last.ret.group = GroupAt(board, last.start)
             /\ last.ret.liberties = LibertiesAt(board, GroupAt(board, last.start))
             /\ \A p \in Occupied(board) :
                   ~SameSide(board, p, last.start)
                      => p \notin last.ret.group \cup last.ret.liberties

\* C28: _group_and_liberties(start) returns the stones of the start stone's
\* colour (letter case aside) connected to the start, and the empty cells
\* next to one of them; stones of the other colour are in neither set; an
\* empty start cell gives two empty sets; the call leaves the grid as it is.
C28_GroupAndLiberties ==
    /\ []ReturnsGroup
    /\ [][last'.op = "group_and_liberties" => board' = board]_vars

\* _group_and_liberties has returned a group of stones stored in both
\* letter cases, next to a stone of the other colour and to a liberty.
C28_Witness ==
    /\ last.op = "group_and_liberties"
    /\ \E p \in last.ret.group, q \in last.ret.group :
          Stone(board[p]).color = "B" /\ Stone(board[q]).color = "b"
    /\ \E p \in last.ret.group, q \in Occupied(board) :
          Adjacent(p, q) /\ ~SameSide(board, p, q)
    /\ last.ret.liberties /= {}

-----------------------------------------------------------------------------
(* C29 *)

NoRepeat(seq) == \A i, j \in 1..Len(seq) : i /= j => seq[i] /= seq[j]

Area == size[1] * size[2]

\* A flood fill in progress: no cell was pushed twice, every pushed cell is
\* on the stack or was popped, and the pops are within the board's area.
FillBounded(f) ==
    /\ NoRepeat(f.pushed)
    /\ f.pops + Len(f.stack) = Len(f.pushed)
    /\ Len(f.pushed) <= Area
    /\ f.pops <= Area

\* A scan in progress: no stone is in two of the groups evaluated so far,
\* and once the scan is over every stone of the grid is in one of them,
\* which is its whole group.
ScanOnce(u) ==
    /\ \A i, j \in 1..Len(u.evaluated) :
          i /= j => u.evaluated[i] \cap u.evaluated[j] = {}
    /\ u.order = <<>> =>
          \A p \in DOMAIN board :
             board[p] /= None =>
                \E i \in 1..Len(u.evaluated) : u.evaluated[i] = GroupAt(board, p)

CallsBounded ==
    \A i \in 1..Len(calls) :
       IF calls[i].fn = "group_and_liberties"
       THEN FillBounded(calls[i])
       ELSE ScanOnce(calls[i])

\* C29: capture resolution terminates.  In the flood fill of
\* _group_and_liberties no cell is pushed twice, so there are at most
\* width x height pops; update_board evaluates each group exactly once; and
\* every call that has begun, on any grid, returns.
C29_Terminates ==
    /\ []CallsBounded
    /\ (calls /= <<>>) ~> (calls = <<>>)

\* update_board has returned after evaluating several groups, one of them
\* of three stones or more, and has cleared stones.
C29_Witness ==
    /\ last.op = "update_board"
    /\ last.err = "none"
    /\ Len(last.evaluated) >= 2
    /\ \E i \in 1..Len(last.evaluated) : Cardinality(last.evaluated[i]) >= 3
    /\ last.ret /= <<>>

-----------------------------------------------------------------------------
(* C30 *)

\* C30: in every state reached through Game construction, play, place,
\* add_move, remove_move and update_board, each non-empty cell (x, y) holds
\* a Move whose pos is (x, y), and no Move is held by two cells.
C30_CellsHoldTheirMoves ==
    \A p \in Occupied(board) :
       /\ Stone(board[p]).pos = p
       /\ \A q \in Occupied(board) \ {p} : board[q] /= board[p]

\* remove_move has cleared a cell and left a played stone and a stone set
\* on the board without a turn.
C30_Witness ==
    /\ last.op = "remove_move"
    /\ last.err = "none"
    /\ \E p \in Occupied(board) : Stone(board[p]).turn /= None
    /\ \E p \in Occupied(board) : Stone(board[p]).turn = None

====
